---- MODULE Spec2Model ----
(***************************************************************************)
(* Manifest-driven playlist synchronisation of spotify-dl:                 *)
(*   src/spotify_dl/sync.py      run_sync, save_manifest, generate_filename*)
(*   src/spotify_dl/youtube.py   download_songs and its worker processes   *)
(*   src/reconcile_cache.py      reconcile, build_track_lookup             *)
(* Strings are sequences of Unicode code points.                           *)
(***************************************************************************)
EXTENDS Integers, Sequences, FiniteSets, TLC

\* ------------------------------------------------------------------ bounds
MaxRuns == 2          \* run_sync invocations in one behaviour
MaxReconciles == 1    \* reconcile invocations in one behaviour
MaxRepeats == 2       \* reconcile invocations where it is called again
MaxRemoteChanges == 1 \* edits of the remote playlists in one behaviour
MaxFaults == 1        \* kills and failed saves in one behaviour
MaxLines == 12        \* lines of the reference file given to the workers
MaxCpu == 5           \* worker processes
MaxPad == 196         \* length of the run of letters a track name starts with
MaxTail == 2          \* characters that follow it

\* --------------------------------------------------------------- strings
MAX_BYTES == 200      \* generate_filename(track, max_bytes=200)

None == "None"

Str_mp3 == <<46, 109, 112, 51>>        \* ".mp3"
Str_sep == <<32, 45, 32>>              \* " - "
Ch_hash == 35                          \* "#"

\* str.encode('utf-8'): the bytes of one code point, of a string
Utf8Bytes(c) ==
    IF c < 128 THEN <<c>>
    ELSE IF c < 2048 THEN <<192 + (c \div 64), 128 + (c % 64)>>
    ELSE IF c < 65536
         THEN <<224 + (c \div 4096), 128 + ((c \div 64) % 64), 128 + (c % 64)>>
    ELSE <<240 + (c \div 262144), 128 + ((c \div 4096) % 64),
           128 + ((c \div 64) % 64), 128 + (c % 64)>>

RECURSIVE Utf8Encode(_)
Utf8Encode(s) ==
    IF s = <<>> THEN <<>>
    ELSE IF Len(s) = 1 THEN Utf8Bytes(s[1])
    ELSE LET half == Len(s) \div 2
         IN  Utf8Encode(SubSeq(s, 1, half)) \o Utf8Encode(SubSeq(s, half + 1, Len(s)))

\* bytes.decode('utf-8', errors='ignore'): a lead byte followed by all its
\* continuation bytes gives a code point; every other byte is dropped
LeadWidth(b) ==
    IF b < 128 THEN 1 ELSE IF b >= 194 /\ b < 224 THEN 2
    ELSE IF b >= 224 /\ b < 240 THEN 3 ELSE IF b >= 240 /\ b < 245 THEN 4 ELSE 0
CodePoint(bs) ==
    IF Len(bs) = 1 THEN bs[1]
    ELSE IF Len(bs) = 2 THEN (bs[1] - 192) * 64 + (bs[2] - 128)
    ELSE IF Len(bs) = 3 THEN (bs[1] - 224) * 4096 + (bs[2] - 128) * 64 + (bs[3] - 128)
    ELSE (bs[1] - 240) * 262144 + (bs[2] - 128) * 4096 + (bs[3] - 128) * 64 + (bs[4] - 128)
StartsChar(bytes, i) ==
    LET w == LeadWidth(bytes[i])
    IN  /\ w > 0 /\ i + w - 1 <= Len(bytes)
        /\ \A j \in (i + 1)..(i + w - 1) : bytes[j] >= 128 /\ bytes[j] < 192
RECURSIVE DecodeRange(_, _, _)
DecodeRange(bytes, lo, hi) ==
    IF lo > hi THEN <<>>
    ELSE IF lo = hi
         THEN IF StartsChar(bytes, lo)
              THEN <<CodePoint(SubSeq(bytes, lo, lo + LeadWidth(bytes[lo]) - 1))>>
              ELSE <<>>
    ELSE LET mid == (lo + hi) \div 2
         IN  DecodeRange(bytes, lo, mid) \o DecodeRange(bytes, mid + 1, hi)
DecodeIgnore(bytes) == DecodeRange(bytes, 1, Len(bytes))

\* str.rstrip(): trailing whitespace (str.isspace) removed
IsSpace(c) ==
    c \in (9..13) \cup (28..32) \cup {133, 160, 5760, 8232, 8233, 8239, 8287, 12288}
          \cup (8192..8202)

RECURSIVE RStrip(_)
RStrip(s) ==
    IF s = <<>> THEN s
    ELSE IF IsSpace(s[Len(s)]) THEN RStrip(SubSeq(s, 1, Len(s) - 1)) ELSE s

\* str.lower() on the ASCII letters
LowerCh(c) == IF c >= 65 /\ c <= 90 THEN c + 32 ELSE c
Lower(s) == [i \in 1..Len(s) |-> LowerCh(s[i])]

\* spotify_dl.utils.sanitize(name, replace_with): every character that is
\* illegal in a file name is replaced      \ / : * ? " < > | NUL $
IllegalChars == {92, 47, 58, 42, 63, 34, 60, 62, 124, 0, 36}
sanitize(s, r) == [i \in 1..Len(s) |-> IF s[i] \in IllegalChars THEN r ELSE s[i]]

\* youtube.default_filename(name=..., artist=...)
default_filename(name, artist) == sanitize(artist \o Str_sep \o name, Ch_hash)

\* (the cut made on characters instead of bytes)
generate_filename_CharCut(name, artist) ==
    LET filename == default_filename(name, artist)
    IN  IF Len(Utf8Encode(filename)) > MAX_BYTES
        THEN RStrip([i \in 1..(IF Len(filename) < MAX_BYTES THEN Len(filename) ELSE MAX_BYTES) |-> filename[i]])
        ELSE filename

\* sync.generate_filename(track, max_bytes=200)
generate_filename(name, artist) ==
    LET filename == default_filename(name, artist)
        encoded == Utf8Encode(filename)
    IN  IF Len(encoded) > MAX_BYTES
        THEN RStrip(DecodeIgnore(SubSeq(encoded, 1, MAX_BYTES)))
        ELSE filename

\* ------------------------------------------------- the remote catalogue
Tracks == {"t1", "t2", "t3"}
Playlists == {"p1", "p2"}

\* track metadata as fetch_tracks returns it: t1 "A - S:" and t2 "A - S?"
\* (two recordings whose names differ in an illegal character), t3 "B - O"
TrackName == [t \in Tracks |-> CASE t = "t1" -> <<83, 58>> [] t = "t2" -> <<83, 63>> [] OTHER -> <<79>>]
TrackArtist == [t \in Tracks |-> IF t = "t3" THEN <<66>> ELSE <<65>>]

\* the user's playlists as fetch_user_playlists returns them: "M", "G" and
\* "g" (p3, a playlist that no configuration names)
Name_M == <<77>>
Name_m == <<109>>
Name_G == <<71>>
Name_Gjson == <<71, 46, 106, 115, 111, 110>>   \* "G.json"
Name_g == <<103>>
Name_X == <<88>>
UserPlaylists ==
    [n \in {Name_M, Name_G, Name_g} |->
        IF n = Name_M THEN "p1" ELSE IF n = Name_G THEN "p2" ELSE "p3"]

\* ------------------------------------------------------- configuration
\* sync.load_folder_mapping: folder -> playlist names becomes
\* playlist name -> folder; a ".json" suffix is stripped from a name
Str_json == <<46, 106, 115, 111, 110>>
EndsWith(s, suf) ==
    Len(s) >= Len(suf) /\ SubSeq(s, Len(s) - Len(suf) + 1, Len(s)) = suf
CleanName(n) == IF EndsWith(n, Str_json) THEN SubSeq(n, 1, Len(n) - 5) ELSE n

load_folder_mapping(cfg) ==
    LET names == UNION {{CleanName(n) : n \in cfg.folders[f]} : f \in DOMAIN cfg.folders}
    IN  [reverse_mapping |->
            [n \in names |->
                CHOOSE f \in DOMAIN cfg.folders : \E x \in cfg.folders[f] : CleanName(x) = n],
         all_playlist_names |-> names]

\* sync.get_playlist_folder: dict.get, no folder when the name is not mapped
\* (None, written as the empty string: "if folder:" treats both alike)
NoFolder == <<>>
Folder_F == <<70>>
get_playlist_folder(playlist_name, folder_mapping) ==
    IF playlist_name \in DOMAIN folder_mapping THEN folder_mapping[playlist_name] ELSE NoFolder

\* (a lookup that does not try the exact name first)
find_playlist_by_name_AnyCase(user_playlists, playlist_name) ==
    IF \E n \in DOMAIN user_playlists : Lower(n) = Lower(playlist_name)
    THEN user_playlists[CHOOSE n \in DOMAIN user_playlists : Lower(n) = Lower(playlist_name)]
    ELSE None

\* sync.find_playlist_by_name: exact match first, then case-insensitive
find_playlist_by_name(user_playlists, playlist_name) ==
    IF playlist_name \in DOMAIN user_playlists THEN user_playlists[playlist_name]
    ELSE IF \E n \in DOMAIN user_playlists : Lower(n) = Lower(playlist_name)
         THEN user_playlists[CHOOSE n \in DOMAIN user_playlists : Lower(n) = Lower(playlist_name)]
         ELSE None

\* the sync configuration file: playlists "m" and "G.json" under folder "F"
\* are looked up by name, "X" names no playlist of the user
Folder_H == <<72>>
DefaultConfig ==
    [exists |-> TRUE, has_output_dir |-> TRUE, playlists |-> <<>>,
     folders |-> [f \in {Folder_F} |-> {Name_m, Name_Gjson, Name_X}],
     spotify_user_id |-> "u"]
\* the file after an edit: "m" moved to folder "H"; p1 given by its url and
\* mapped to no folder; p1 given by its url and by the name "m" as well;
\* and the files load_config or run_sync refuse:
\* no file, no output_dir, no playlist at all, names but no spotify_user_id
Config_H ==
    [DefaultConfig EXCEPT !.folders = (Folder_F :> {Name_Gjson, Name_X}) @@ (Folder_H :> {Name_m})]
Config_Url ==
    [DefaultConfig EXCEPT !.playlists = <<[item_type |-> "playlist", id |-> "p1"]>>,
                          !.folders = (Folder_F :> {Name_Gjson})]
Config_Both ==
    [DefaultConfig EXCEPT !.playlists = <<[item_type |-> "playlist", id |-> "p1"]>>]
ValidConfigs == {DefaultConfig, Config_H, Config_Url, Config_Both}
BadConfigs ==
    {[DefaultConfig EXCEPT !.exists = FALSE],
     [DefaultConfig EXCEPT !.has_output_dir = FALSE],
     [DefaultConfig EXCEPT !.folders = <<>>],
     [DefaultConfig EXCEPT !.spotify_user_id = None]}
Configs == ValidConfigs \cup BadConfigs

\* (a run_sync that goes on whatever the configuration)
SyncError_None(cfg, credentials) == "none"

\* sync.load_config lines 23-51, get_tokens (run_sync lines 269-271) and the
\* test of spotify_user_id (run_sync lines 301-304): why the call exits
\* with status 1, "none" when it does not
SyncError(cfg, credentials) ==
    IF ~cfg.exists THEN "config file not found"
    ELSE IF ~cfg.has_output_dir THEN "config missing output_dir"
    ELSE IF cfg.playlists = <<>> /\ load_folder_mapping(cfg).all_playlist_names = {}
         THEN "config names no playlist"
    ELSE IF ~credentials THEN "no credentials"
    ELSE IF load_folder_mapping(cfg).all_playlist_names # {} /\ cfg.spotify_user_id = None
         THEN "spotify_user_id required"
    ELSE "none"

\* ------------------------------------------------------------ file names
\* csv.writer(delimiter=";") writes a field that holds the delimiter, a
\* quote or a line break between quotes, with every quote doubled
Ch_semi == 59
Ch_quote == 34
RECURSIVE DoubleQuotes(_, _, _)
DoubleQuotes(s, lo, hi) ==
    IF lo > hi THEN <<>>
    ELSE IF lo = hi THEN (IF s[lo] = Ch_quote THEN <<Ch_quote, Ch_quote>> ELSE <<s[lo]>>)
    ELSE LET mid == (lo + hi) \div 2
         IN  DoubleQuotes(s, lo, mid) \o DoubleQuotes(s, mid + 1, hi)
csv_field(s) ==
    IF \E i \in 1..Len(s) : s[i] \in {Ch_semi, Ch_quote, 10, 13}
    THEN <<Ch_quote>> \o DoubleQuotes(s, 1, Len(s)) \o <<Ch_quote>>
    ELSE s
\* the start of the row write_tracks writes for a track: name;artist;...
csv_row(name, artist) == csv_field(name) \o <<Ch_semi>> \o csv_field(artist) \o <<Ch_semi>>
\* line.split(";")[k], k = 0 or 1, of a line with two delimiters or more
SplitField(line, k) ==
    LET semis == {i \in 1..Len(line) : line[i] = Ch_semi}
        first == CHOOSE i \in semis : \A j \in semis : i <= j
        second == CHOOSE i \in semis \ {first} : \A j \in semis \ {first} : i <= j
    IN  IF k = 0 THEN SubSeq(line, 1, first - 1) ELSE SubSeq(line, first + 1, second - 1)
\* the file find_and_download_songs writes for a line of the reference
\* file: file_name_f(name=temp[0], artist=temp[1]) + ".mp3"
mp3file_name(line) ==
    default_filename(SplitField(line, 0), SplitField(line, 1)) \o Str_mp3

\* sanitize(name) with the default replacement "": illegal characters removed
sanitize_path(s) == SelectSeq(s, LAMBDA c : c \notin IllegalChars)
PlaylistDir(playlist_name, folder) ==
    IF folder # NoFolder THEN <<sanitize_path(folder), sanitize_path(playlist_name)>>
    ELSE <<sanitize_path(playlist_name)>>

\* ------------------------------------------------------------- manifest
\* sync.load_manifest: the structure returned when no manifest file exists,
\* with the playlist_url_cache that run_sync lines 281-282 add when absent
\* (reconcile reads it with .get: absent and empty are alike)
EmptyManifest == [version |-> 1, cache |-> <<>>, playlists |-> <<>>, playlist_url_cache |-> <<>>]

\* ---------------------------------------------------------------- state
VARIABLES
    config,            \* the parsed configuration file
    retitled,          \* the tracks the catalogue now lists under another name
    tokens,            \* get_tokens(): the credentials are available
    call,              \* a direct call of a pure function: arguments, result
    remote,            \* playlist id -> track ids, what fetch_tracks returns
    manifestFile,      \* the file .spotify_dl_manifest.json
    tmpFile,           \* the temporary file of the save_manifest in progress
    cacheDir,          \* output_dir/.cache
    folderFiles,       \* playlist directory -> names of the files in it
    pc,                \* position of the running entry point, "idle" when none
    args,              \* run_sync(dry_run, limit, limit_playlists, multi_core)
    manifest,          \* the manifest dict of the running entry point
    namesLeft,         \* names of playlist_names_to_find not yet looked up
    playlists_to_sync, \* list of (playlist_id, playlist_name)
    actions,           \* the plan: playlist id -> action
    planOrder,         \* the keys of actions in insertion order
    all_downloads,     \* the global batch of (sid, track)
    to_download,       \* download_to_cache_batch: tracks with no file in cache
    results,           \* download_to_cache_batch: spotify_id -> filename
    workers,           \* the downloader processes: lines left and position
    phase2,            \* Phase 2: playlist being materialised and steps left
    saving,            \* save_manifest in progress: stage, continuation and the
                       \* manifest file as it was when the call was made
    exit,              \* how the last entry point ended
    clock,             \* datetime.now(), counted in entry points started
    runs, reconciles, remoteChanges, faults,
    start,             \* the files as they were when the entry point started
    log,               \* what the running entry point has done so far
    prev               \* the log of the last run_sync that ended

envVars == <<config, remote, retitled, tokens, call>>
diskVars == <<manifestFile, tmpFile, cacheDir, folderFiles>>
planVars == <<namesLeft, playlists_to_sync, actions, planOrder>>
dlVars == <<all_downloads, to_download, results, workers>>
countVars == <<clock, runs, reconciles, remoteChanges, faults>>
histVars == <<start, log, prev>>
vars == <<envVars, diskVars, pc, args, manifest, planVars, dlVars, phase2, saving, exit,
          countVars, histVars>>

\* track["name"] as fetch_tracks returns it now
NewName == <<78>>                      \* "N"
Name(t) == IF t \in retitled THEN NewName ELSE TrackName[t]
\* the path download_to_cache_batch checks: generate_filename(track) + ".mp3"
CacheFilename(t) == generate_filename(Name(t), TrackArtist[t]) \o Str_mp3
\* the path the downloader writes for a track
DownloadFilename(t) == mp3file_name(csv_row(Name(t), TrackArtist[t]))

NoFile == [exists |-> FALSE, whole |-> TRUE, doc |-> EmptyManifest]
NoCall == [fn |-> "none", args |-> <<>>, done |-> FALSE, ret |-> <<>>]
NoArgs == [dry_run |-> FALSE, limit |-> 0, limit_playlists |-> 0, multi_core |-> 0]
NoPhase2 == [idx |-> 0, addLeft |-> {}, removeLeft |-> {}]
NoSaving == [stage |-> "none", ret |-> "idle", what |-> "none", before |-> NoFile]
\* what is kept of a reconcile that ran to its last message
NoRec == [done |-> FALSE, saved |-> FALSE, lookup |-> <<>>, unmatched |-> {}]

NoLog ==
    [entry |-> "none",        \* "sync" or "reconcile"
     args |-> NoArgs,
     plan |-> <<>>,           \* playlist id -> to_add, to_remove
     dropped |-> {},          \* tracks needed and cut from the batch by the limit
     handed |-> {},           \* tracks passed to download_songs
     acquired |-> [t \in Tracks |-> 0],  \* downloads completed, per track
     failed |-> {},           \* tracks passed on whose file did not appear
     downloaded |-> {},       \* keys of the dict download_to_cache_batch returned
     phase1Saved |-> FALSE,   \* the save after the batch has completed
     materialized |-> {},     \* playlists whose copy and remove loops are done
     committed |-> {},        \* playlists whose save has completed
     copied |-> {},           \* (directory, filename) of every shutil.copy2
     lookup |-> <<>>,         \* reconcile: the lookup built, the count of
     matched |-> 0,           \* matched files and the unmatched files
     unmatched |-> {},
     rec |-> NoRec,           \* (of prev) the reconcile that ended last, if no
                              \* run_sync has ended since
     stable |-> FALSE]        \* nothing has changed since the run ended

NoStart == [manifestFile |-> NoFile, cacheDir |-> [exists |-> FALSE, files |-> {}],
            folderFiles |-> <<>>]

\* (a run that starts from an empty manifest)
load_manifest_Empty == EmptyManifest

\* sync.load_manifest
load_manifest == IF manifestFile.exists THEN manifestFile.doc ELSE EmptyManifest

\* ------------------------------------------------------------- helpers
Put(f, k, v) == (k :> v) @@ f
Range(q) == {q[i] : i \in 1..Len(q)}

\* the orders in which iterating a Python set may yield its elements
RECURSIVE Orderings(_)
Orderings(S) ==
    IF S = {} THEN {<<>>}
    ELSE UNION {{<<x>> \o q : q \in Orderings(S \ {x})} : x \in S}

RECURSIVE Concat(_, _)
Concat(order, f) == IF order = <<>> THEN <<>> ELSE f[Head(order)] \o Concat(Tail(order), f)

\* spotify.get_item_name / the url of a playlist of the remote catalogue
ItemName(playlist_id) == CHOOSE n \in DOMAIN UserPlaylists : UserPlaylists[n] = playlist_id
PlaylistUrl(playlist_id) == <<"open.spotify.com/playlist", playlist_id>>

\* what is kept of the log of a run_sync that has ended
Summary(l) ==
    [NoLog EXCEPT !.entry = "sync", !.args = l.args, !.plan = l.plan, !.dropped = l.dropped,
                  !.failed = l.failed,
                  !.downloaded = l.downloaded, !.phase1Saved = l.phase1Saved,
                  !.committed = l.committed, !.stable = TRUE]

\* the end of an entry point: its local variables are gone
Return(how) ==
    /\ pc' = "idle"
    /\ exit' = how
    /\ args' = NoArgs
    /\ manifest' = EmptyManifest
    /\ namesLeft' = {}
    /\ playlists_to_sync' = <<>>
    /\ actions' = <<>>
    /\ planOrder' = <<>>
    /\ all_downloads' = <<>>
    /\ to_download' = <<>>
    /\ results' = <<>>
    /\ workers' = <<>>
    /\ phase2' = NoPhase2
    /\ saving' = NoSaving
    /\ log' = NoLog
    /\ prev' = IF log.entry = "sync" THEN Summary(log)
               ELSE IF log.entry = "reconcile"
               THEN [prev EXCEPT !.stable = FALSE,
                                 !.rec = IF how = "reconciled"
                                         THEN [done |-> TRUE, saved |-> ~log.args.dry_run,
                                               lookup |-> log.lookup,
                                               unmatched |-> log.unmatched]
                                         ELSE NoRec]
               ELSE [prev EXCEPT !.stable = FALSE]
    /\ start' = NoStart

\* nothing has been synced yet: no manifest, no cache directory, no folder
NothingSynced ==
    /\ tokens = TRUE
    /\ retitled = {}
    /\ manifestFile = NoFile
    /\ tmpFile = NoFile
    /\ cacheDir = [exists |-> FALSE, files |-> {}]
    /\ folderFiles = <<>>
    /\ pc = "idle"
    /\ exit = "none"
    /\ args = NoArgs
    /\ manifest = EmptyManifest
    /\ namesLeft = {}
    /\ playlists_to_sync = <<>>
    /\ actions = <<>>
    /\ planOrder = <<>>
    /\ all_downloads = <<>>
    /\ to_download = <<>>
    /\ results = <<>>
    /\ workers = <<>>
    /\ phase2 = NoPhase2
    /\ saving = NoSaving
    /\ clock = 0
    /\ runs = 0
    /\ reconciles = 0
    /\ remoteChanges = 0
    /\ faults = 0
    /\ start = NoStart
    /\ log = NoLog
    /\ prev = NoLog

Fresh ==
    /\ config = DefaultConfig
    /\ remote = [p \in Playlists |-> IF p = "p1" THEN {"t1", "t3"} ELSE {"t3"}]
    /\ NothingSynced

Init == Fresh /\ call = NoCall

\* ------------------------------------------------------- save_manifest
\* tempfile.mkstemp(dir=output_dir, suffix=".tmp"): an empty temporary file
SaveMkstemp ==
    /\ pc = "saving" /\ saving.stage = "mkstemp"
    /\ tmpFile' = [exists |-> TRUE, whole |-> FALSE, doc |-> EmptyManifest]
    /\ saving' = [saving EXCEPT !.stage = "write"]
    /\ UNCHANGED <<envVars, manifestFile, cacheDir, folderFiles, pc, args, manifest,
                   planVars, dlVars, phase2, exit, countVars, histVars>>

\* (a save that writes the manifest path itself, not a temporary file)
SaveWrite_InPlace ==
    /\ pc = "saving" /\ saving.stage = "write"
    /\ manifestFile' = [exists |-> TRUE, whole |-> FALSE, doc |-> manifest]
    /\ saving' = [saving EXCEPT !.stage = "replace"]
    /\ UNCHANGED <<envVars, tmpFile, cacheDir, folderFiles, pc, args, manifest,
                   planVars, dlVars, phase2, exit, countVars, histVars>>

\* json.dump(manifest, f) into the temporary file
SaveWrite ==
    /\ pc = "saving" /\ saving.stage = "write"
    /\ tmpFile' = [exists |-> TRUE, whole |-> TRUE, doc |-> manifest]
    /\ saving' = [saving EXCEPT !.stage = "replace"]
    /\ UNCHANGED <<envVars, manifestFile, cacheDir, folderFiles, pc, args, manifest,
                   planVars, dlVars, phase2, exit, countVars, histVars>>

\* json.dump raises part-way (disk full): the temporary file is incomplete
SaveWriteFail ==
    /\ pc = "saving" /\ saving.stage = "write"
    /\ faults < MaxFaults
    /\ faults' = faults + 1
    /\ tmpFile' = [exists |-> TRUE, whole |-> FALSE, doc |-> manifest]
    /\ saving' = [saving EXCEPT !.stage = "except"]
    /\ UNCHANGED <<envVars, manifestFile, cacheDir, folderFiles, pc, args, manifest,
                   planVars, dlVars, phase2, exit, clock, runs, reconciles, remoteChanges, histVars>>

\* os.replace(tmp_path, manifest_path): one atomic rename, then the return
SaveReplace ==
    /\ pc = "saving" /\ saving.stage = "replace"
    /\ manifestFile' = tmpFile
    /\ tmpFile' = NoFile
    /\ pc' = saving.ret
    /\ saving' = NoSaving
    /\ log' = CASE saving.what = "phase1" -> [log EXCEPT !.phase1Saved = TRUE]
                [] saving.what = "playlist" ->
                    [log EXCEPT !.committed = @ \cup {planOrder[phase2.idx]}]
                [] OTHER -> log
    /\ UNCHANGED <<envVars, cacheDir, folderFiles, args, manifest,
                   planVars, dlVars, phase2, exit, countVars, start, prev>>

\* os.replace raises
SaveReplaceFail ==
    /\ pc = "saving" /\ saving.stage = "replace"
    /\ faults < MaxFaults
    /\ faults' = faults + 1
    /\ saving' = [saving EXCEPT !.stage = "except"]
    /\ UNCHANGED <<envVars, diskVars, pc, args, manifest,
                   planVars, dlVars, phase2, exit, clock, runs, reconciles, remoteChanges, histVars>>

\* except Exception: the temporary file is removed and the error raised
\* again; neither run_sync nor reconcile catches it
SaveExcept ==
    /\ pc = "saving" /\ saving.stage = "except"
    /\ tmpFile' = NoFile
    /\ Return("error")
    /\ UNCHANGED <<envVars, manifestFile, cacheDir, folderFiles, countVars>>

\* (a save that returns at once and writes nothing)
CallSave_Skipped(what, ret) == pc' = ret /\ UNCHANGED saving

\* the call save_manifest(output_dir, manifest), continuing at ret
CallSave(what, ret) ==
    /\ pc' = "saving"
    /\ saving' = [stage |-> "mkstemp", ret |-> ret, what |-> what, before |-> manifestFile]

\* ------------------------------------------------------------- run_sync
NoTime == 0

\* run_sync lines 289-295: the playlist urls of the configuration, in order;
\* a url that is no playlist is skipped
RECURSIVE UrlPlaylists(_)
UrlPlaylists(urls) ==
    IF urls = <<>> THEN <<>>
    ELSE IF Head(urls).item_type # "playlist" THEN UrlPlaylists(Tail(urls))
    ELSE <<<<Head(urls).id, ItemName(Head(urls).id)>>>> \o UrlPlaylists(Tail(urls))

\* run_sync lines 262-298: configuration, manifest and credentials are
\* loaded, the playlists given by url are listed
SyncStart(dry_run, limit, limit_playlists, multi_core) ==
    /\ pc = "idle"
    /\ runs < MaxRuns
    /\ SyncError(config, tokens) = "none"
    /\ runs' = runs + 1
    /\ clock' = clock + 1
    /\ args' = [dry_run |-> dry_run, limit |-> limit,
                limit_playlists |-> limit_playlists, multi_core |-> multi_core]
    /\ manifest' = load_manifest
    /\ playlists_to_sync' = UrlPlaylists(config.playlists)
    /\ namesLeft' = load_folder_mapping(config).all_playlist_names
    /\ pc' = "resolve"
    /\ start' = [manifestFile |-> manifestFile, cacheDir |-> cacheDir,
                 folderFiles |-> folderFiles]
    /\ log' = [NoLog EXCEPT !.entry = "sync", !.args = args']
    /\ UNCHANGED <<envVars, diskVars, actions, planOrder, dlVars, phase2, saving, exit,
                   reconciles, remoteChanges, faults, prev>>

\* load_config lines 25-49 and run_sync lines 269-271, 301-304:
\* log.error and sys.exit(1)
SyncFatal ==
    /\ pc = "idle"
    /\ runs < MaxRuns
    /\ SyncError(config, tokens) # "none"
    /\ runs' = runs + 1
    /\ Return("fatal")
    /\ UNCHANGED <<envVars, diskVars, clock, reconciles, remoteChanges, faults>>

\* run_sync lines 310-333, one iteration of "for name in playlist_names_to_find"
\* (a set: the names come in any order)
ResolveName(name) ==
    /\ pc = "resolve"
    /\ name \in namesLeft
    /\ namesLeft' = namesLeft \ {name}
    /\ IF \E i \in 1..Len(playlists_to_sync) : playlists_to_sync[i][2] = name
       THEN UNCHANGED <<pc, saving, manifest, playlists_to_sync>>
       ELSE IF name \in DOMAIN manifest.playlist_url_cache
       THEN /\ playlists_to_sync' =
                   Append(playlists_to_sync, <<manifest.playlist_url_cache[name].id, name>>)
            /\ UNCHANGED <<pc, saving, manifest>>
       ELSE LET playlist_id == find_playlist_by_name(UserPlaylists, name)
            IN  IF playlist_id = None
                THEN UNCHANGED <<pc, saving, manifest, playlists_to_sync>>
                ELSE /\ manifest' = [manifest EXCEPT !.playlist_url_cache =
                            Put(@, name, [id |-> playlist_id, url |-> PlaylistUrl(playlist_id)])]
                     /\ CallSave("url_cache", "resolve")
                     /\ playlists_to_sync' = Append(playlists_to_sync, <<playlist_id, name>>)
    /\ UNCHANGED <<envVars, diskVars, args, actions, planOrder, dlVars, phase2, exit, countVars,
                   histVars>>

\* (a playlist limit that cuts nothing)
ApplyPlaylistLimit_None(pts, limit_playlists) == pts

\* run_sync lines 336-338
ApplyPlaylistLimit(pts, limit_playlists) ==
    IF limit_playlists # 0 /\ Len(pts) > limit_playlists
    THEN SubSeq(pts, 1, limit_playlists) ELSE pts

\* (a fetch loop that leaves the folder of a known playlist as it is)
RECURSIVE FetchLoop_NoRefresh(_, _, _)
FetchLoop_NoRefresh(pts, playlists, folder_mapping) ==
    IF pts = <<>> THEN playlists
    ELSE LET playlist_id == Head(pts)[1]
         IN  FetchLoop_NoRefresh(Tail(pts),
                 IF playlist_id \notin DOMAIN playlists
                 THEN Put(playlists, playlist_id,
                          [name |-> Head(pts)[2], url |-> PlaylistUrl(playlist_id),
                           folder |-> get_playlist_folder(Head(pts)[2], folder_mapping),
                           songs |-> {}, last_synced |-> NoTime])
                 ELSE playlists,
                 folder_mapping)

\* run_sync lines 345-363: a PlaylistRecord is created on first sight,
\* otherwise its folder is refreshed
RECURSIVE FetchLoop(_, _, _)
FetchLoop(pts, playlists, folder_mapping) ==
    IF pts = <<>> THEN playlists
    ELSE LET playlist_id == Head(pts)[1]
             playlist_name == Head(pts)[2]
             folder == get_playlist_folder(playlist_name, folder_mapping)
         IN  FetchLoop(Tail(pts),
                 IF playlist_id \notin DOMAIN playlists
                 THEN Put(playlists, playlist_id,
                          [name |-> playlist_name, url |-> PlaylistUrl(playlist_id),
                           folder |-> folder, songs |-> {}, last_synced |-> NoTime])
                 ELSE [playlists EXCEPT ![playlist_id].folder = folder],
                 folder_mapping)

\* the keys of playlist_songs in insertion order, and playlist_names
RECURSIVE KeyOrder(_, _)
KeyOrder(pts, seen) ==
    IF pts = <<>> THEN <<>>
    ELSE IF Head(pts)[1] \in seen THEN KeyOrder(Tail(pts), seen)
    ELSE <<Head(pts)[1]>> \o KeyOrder(Tail(pts), seen \cup {Head(pts)[1]})
PlaylistNameOf(pts, playlist_id) ==
    pts[CHOOSE i \in 1..Len(pts) :
            /\ pts[i][1] = playlist_id
            /\ \A j \in (i + 1)..Len(pts) : pts[j][1] # playlist_id][2]

\* (a diff that forgets the recorded songs; a partition that forgets the cache)
ToAdd_IgnorePrev(curr_songs, prev_songs) == curr_songs
ToRemove_Swapped(curr_songs, prev_songs) == curr_songs \ prev_songs
NeedsDownload_All(to_add, cache) == to_add

\* run_sync lines 381-388
ToAdd(curr_songs, prev_songs) == curr_songs \ prev_songs
ToRemove(curr_songs, prev_songs) == prev_songs \ curr_songs
NeedsDownload(to_add, cache) == {sid \in to_add : sid \notin DOMAIN cache}
NeedsCopy(to_add, cache) == {sid \in to_add : sid \in DOMAIN cache}

\* run_sync lines 373-403: the action of one playlist
PlanAction(playlist_id, playlist_name, songs, m, folder_mapping) ==
    LET folder == get_playlist_folder(playlist_name, folder_mapping)
        prev_songs == IF playlist_id \in DOMAIN m.playlists
                      THEN m.playlists[playlist_id].songs ELSE {}
        to_add == ToAdd(songs, prev_songs)
    IN  [playlist_name |-> playlist_name,
         folder |-> folder,
         playlist_dir |-> PlaylistDir(playlist_name, folder),
         songs |-> songs,
         to_add |-> to_add,
         to_remove |-> ToRemove(songs, prev_songs),
         needs_download |-> NeedsDownload(to_add, m.cache),
         needs_copy |-> NeedsCopy(to_add, m.cache)]

\* run_sync lines 336-403: the playlist limit, the fetch of every playlist
\* and the plan
Plan ==
    /\ pc = "resolve"
    /\ namesLeft = {}
    /\ LET pts == ApplyPlaylistLimit(playlists_to_sync, args.limit_playlists)
           folder_mapping == load_folder_mapping(config).reverse_mapping
           m == [manifest EXCEPT !.playlists = FetchLoop(pts, @, folder_mapping)]
           order == KeyOrder(pts, {})
       IN  /\ playlists_to_sync' = pts
           /\ manifest' = m
           /\ planOrder' = order
           /\ actions' = [playlist_id \in Range(order) |->
                             PlanAction(playlist_id, PlaylistNameOf(pts, playlist_id),
                                        remote[playlist_id], m, folder_mapping)]
    /\ pc' = "planned"
    /\ log' = [log EXCEPT !.plan = [playlist_id \in DOMAIN actions' |->
                   [to_add |-> actions'[playlist_id].to_add,
                    to_remove |-> actions'[playlist_id].to_remove]]]
    /\ UNCHANGED <<envVars, diskVars, args, namesLeft, dlVars, phase2, saving, exit, countVars,
                   start, prev>>

\* run_sync lines 421-440: the plan is listed and nothing else is done
SyncDryRun ==
    /\ pc = "planned"
    /\ args.dry_run
    /\ Return("dry_run")
    /\ UNCHANGED <<envVars, diskVars, countVars>>

\* ------------------------------------------------- Phase 1: the download
\* run_sync lines 450-452
ApplyDownloadLimit(downloads, limit) ==
    IF limit # 0 /\ Len(downloads) > limit THEN SubSeq(downloads, 1, limit) ELSE downloads

\* (the extra songs given to the last workers instead of the first)
SongsOfCpu_ExtraLast(cpu, number_of_songs, cpu_count) ==
    (number_of_songs \div cpu_count)
    + (IF cpu >= cpu_count - (number_of_songs % cpu_count) THEN 1 ELSE 0)

\* multicore_find_and_download_songs lines 402-419: the lines of the
\* reference file are cut into cpu_count consecutive segments
SongsOfCpu(cpu, number_of_songs, cpu_count) ==
    (number_of_songs \div cpu_count) + (IF cpu < number_of_songs % cpu_count THEN 1 ELSE 0)
RECURSIVE SegmentIndex(_, _, _)
SegmentIndex(cpu, number_of_songs, cpu_count) ==
    IF cpu = 0 THEN 0
    ELSE SegmentIndex(cpu - 1, number_of_songs, cpu_count)
         + SongsOfCpu(cpu - 1, number_of_songs, cpu_count)
FileSegments(lines, cpu_count) ==
    [c \in 1..cpu_count |->
        LET index == SegmentIndex(c - 1, Len(lines), cpu_count)
            right == SongsOfCpu(c - 1, Len(lines), cpu_count) + index
        IN  SubSeq(lines, index + 1, right)]

\* download_songs lines 469-472: worker processes when multi_core > 1,
\* otherwise the calling process reads every line itself
StartWorkers(lines, multi_core) ==
    LET segments == IF multi_core > 1 THEN FileSegments(lines, multi_core) ELSE <<lines>>
    IN  [c \in 1..Len(segments) |-> [lines |-> segments[c], stage |-> "check"]]

\* (a batch passed on whole, whatever the cache directory holds)
ToDownload_All(tracks, files) == tracks

\* download_to_cache_batch lines 200-210: the tracks with no file in the
\* cache directory under generate_filename(track) + ".mp3"
ToDownload(tracks, files) == SelectSeq(tracks, LAMBDA sid : CacheFilename(sid) \notin files)

\* run_sync lines 443-456 and download_to_cache_batch lines 198-217: the
\* global batch is collected and cut to the limit; tracks whose file is
\* in the cache directory are set aside, the others are passed on
Phase1Begin ==
    /\ pc = "planned"
    /\ ~args.dry_run
    /\ \E order \in [Range(planOrder) -> UNION {Orderings(actions[q].needs_download) : q \in Range(planOrder)}] :
          /\ \A q \in Range(planOrder) : order[q] \in Orderings(actions[q].needs_download)
          /\ all_downloads' = ApplyDownloadLimit(Concat(planOrder, order), args.limit)
    /\ IF all_downloads' = <<>>
       THEN /\ pc' = "p2_next"
            /\ UNCHANGED <<cacheDir, to_download, results, workers, log>>
       ELSE /\ cacheDir' = [cacheDir EXCEPT !.exists = TRUE]
            /\ to_download' = ToDownload(all_downloads', cacheDir.files)
            /\ results' = [sid \in {x \in Range(all_downloads') : CacheFilename(x) \in cacheDir.files}
                              |-> CacheFilename(sid)]
            /\ workers' = IF to_download' = <<>> THEN <<>>
                        ELSE StartWorkers(to_download', args.multi_core)
            /\ pc' = IF to_download' = <<>> THEN "dl_check" ELSE "download"
            /\ log' = [log EXCEPT !.handed = Range(to_download'),
                                  !.dropped = UNION {actions[q].needs_download : q \in Range(planOrder)}
                                                  \ Range(all_downloads')]
    /\ UNCHANGED <<envVars, manifestFile, tmpFile, folderFiles, args, manifest,
                   planVars, phase2, saving, exit, countVars, start, prev>>

\* find_and_download_songs lines 272-307, one line of the reference file:
\* a track whose mp3 is already there is not downloaded again
WorkerCheck(w) ==
    /\ pc = "download"
    /\ w \in DOMAIN workers
    /\ workers[w].lines # <<>> /\ workers[w].stage = "check"
    /\ workers' = IF DownloadFilename(Head(workers[w].lines)) \in cacheDir.files
                  THEN [workers EXCEPT ![w].lines = Tail(@)]
                  ELSE [workers EXCEPT ![w].stage = "fetch"]
    /\ UNCHANGED <<envVars, diskVars, pc, args, manifest, planVars, all_downloads, to_download,
                   results, phase2, saving, exit, countVars, histVars>>

\* find_and_download_songs lines 315-381: search, download and conversion
\* produce save_path/<file_name>.mp3
WorkerFetch(w) ==
    /\ pc = "download"
    /\ w \in DOMAIN workers
    /\ workers[w].lines # <<>> /\ workers[w].stage = "fetch"
    /\ cacheDir' = [cacheDir EXCEPT !.files = @ \cup {DownloadFilename(Head(workers[w].lines))}]
    /\ workers' = [workers EXCEPT ![w].lines = Tail(@), ![w].stage = "check"]
    /\ log' = [log EXCEPT !.acquired[Head(workers[w].lines)] = @ + 1]
    /\ UNCHANGED <<envVars, manifestFile, tmpFile, folderFiles, pc, args, manifest,
                   planVars, all_downloads, to_download, results, phase2, saving, exit,
                   countVars, start, prev>>

\* ... or they produce no file (no search result, failed download)
WorkerFetchFail(w) ==
    /\ pc = "download"
    /\ w \in DOMAIN workers
    /\ workers[w].lines # <<>> /\ workers[w].stage = "fetch"
    /\ workers' = [workers EXCEPT ![w].lines = Tail(@), ![w].stage = "check"]
    /\ UNCHANGED <<envVars, diskVars, pc, args, manifest, planVars, all_downloads, to_download,
                   results, phase2, saving, exit, countVars, histVars>>

\* (an exception of the downloader that ends run_sync)
WorkerRaise_Aborts(w) ==
    /\ pc = "download"
    /\ w \in DOMAIN workers
    /\ workers[w].lines # <<>>
    /\ Return("error")
    /\ UNCHANGED <<envVars, diskVars, countVars>>

\* an exception ends the downloader: its remaining lines are not read
\* (download_to_cache_batch lines 236-237 catch it in the calling process)
WorkerRaise(w) ==
    /\ pc = "download"
    /\ w \in DOMAIN workers
    /\ workers[w].lines # <<>>
    /\ workers' = [workers EXCEPT ![w].lines = <<>>, ![w].stage = "check"]
    /\ UNCHANGED <<envVars, diskVars, pc, args, manifest, planVars, all_downloads, to_download,
                   results, phase2, saving, exit, countVars, histVars>>

\* download_to_cache_batch lines 239-247 and run_sync lines 458-467: every
\* worker has been joined; a CacheEntry is written for each track whose
\* file exists, then the manifest is saved
CacheEntry(sid, filename, now) ==
    [name |-> Name(sid), artist |-> TrackArtist[sid], filename |-> filename,
     downloaded_at |-> now, reconciled |-> FALSE]

\* (a Phase 1 that records nothing)
PutEntries_None(cache, sids, filenames, now) == cache

RECURSIVE PutEntries(_, _, _, _)
PutEntries(cache, sids, filenames, now) ==
    IF sids = {} THEN cache
    ELSE LET sid == CHOOSE x \in sids : TRUE
         IN  PutEntries(Put(cache, sid, CacheEntry(sid, filenames[sid], now)),
                        sids \ {sid}, filenames, now)

\* (a parent that does not wait for its workers)
AllJoined_NoWait == TRUE

\* multicore_find_and_download_songs lines 432-433 (p.join()), or the
\* return of find_and_download_songs: every line has been read
AllJoined == \A w \in DOMAIN workers : workers[w].lines = <<>>

\* (a check that takes every track passed on as downloaded)
Downloaded_Unchecked(found, pending, files) ==
    [sid \in DOMAIN found \cup Range(pending) |-> CacheFilename(sid)]

\* download_to_cache_batch lines 239-247: the tracks set aside, and the
\* tracks passed on whose file is now in the cache directory
Downloaded(found, pending, files) ==
    LET ok == {sid \in Range(pending) : CacheFilename(sid) \in files}
    IN  [sid \in DOMAIN found \cup ok |-> CacheFilename(sid)]

CheckDownloads ==
    /\ pc \in {"download", "dl_check"}
    /\ AllJoined
    /\ results' = Downloaded(results, to_download, cacheDir.files)
    /\ manifest' = [manifest EXCEPT !.cache = PutEntries(@, DOMAIN results', results', clock)]
    /\ log' = [log EXCEPT !.downloaded = DOMAIN results',
                          !.failed = Range(to_download) \ DOMAIN results']
    /\ CallSave("phase1", "p2_next")
    /\ workers' = <<>>
    /\ UNCHANGED <<envVars, diskVars, args, planVars, all_downloads, to_download, phase2, exit,
                   countVars, start, prev>>

\* ------------------------------------------ Phase 2: copies and removals
FilesOf(dir) == IF dir \in DOMAIN folderFiles THEN folderFiles[dir] ELSE {}

\* run_sync lines 470-472: the next playlist of the plan; its directory is made
P2Next ==
    /\ pc = "p2_next"
    /\ phase2.idx < Len(planOrder)
    /\ LET action == actions[planOrder[phase2.idx + 1]]
       IN  /\ phase2' = [idx |-> phase2.idx + 1, addLeft |-> action.to_add,
                         removeLeft |-> action.to_remove]
           /\ folderFiles' = Put(folderFiles, action.playlist_dir, FilesOf(action.playlist_dir))
    /\ pc' = "p2_files"
    /\ UNCHANGED <<envVars, manifestFile, tmpFile, cacheDir, args, manifest, planVars,
                   dlVars, saving, exit, countVars, histVars>>

\* run_sync lines 474-482, one iteration of "for sid in action['to_add']":
\* a track without CacheEntry is passed over; the cached file is copied
\* unless the destination exists
\* (a copy made whether the destination exists or not)
Copies_Overwrite(files, cache, sid, cached_files) ==
    sid \in DOMAIN cache /\ cache[sid].filename \in cached_files

Copies(files, cache, sid, cached_files) ==
    /\ sid \in DOMAIN cache
    /\ cache[sid].filename \in cached_files /\ cache[sid].filename \notin files
CopyToFolder(files, cache, sid, cached_files) ==
    IF Copies(files, cache, sid, cached_files) THEN files \cup {cache[sid].filename} ELSE files

P2Copy(sid) ==
    /\ pc = "p2_files"
    /\ sid \in phase2.addLeft
    /\ LET dir == actions[planOrder[phase2.idx]].playlist_dir
       IN  /\ folderFiles' = [folderFiles EXCEPT ![dir] =
                                 CopyToFolder(@, manifest.cache, sid, cacheDir.files)]
           /\ log' = IF Copies(folderFiles[dir], manifest.cache, sid, cacheDir.files)
                     THEN [log EXCEPT !.copied = @ \cup {<<dir, manifest.cache[sid].filename>>}]
                     ELSE log
    /\ phase2' = [phase2 EXCEPT !.addLeft = @ \ {sid}]
    /\ UNCHANGED <<envVars, manifestFile, tmpFile, cacheDir, pc, args, manifest,
                   planVars, dlVars, saving, exit, countVars, start, prev>>

\* run_sync lines 484-492, one iteration of "for sid in action['to_remove']"
RemoveFromFolder(files, cache, sid) ==
    IF sid \in DOMAIN cache THEN files \ {cache[sid].filename} ELSE files

P2Remove(sid) ==
    /\ pc = "p2_files"
    /\ phase2.addLeft = {}
    /\ sid \in phase2.removeLeft
    /\ LET dir == actions[planOrder[phase2.idx]].playlist_dir
       IN  folderFiles' = [folderFiles EXCEPT ![dir] = RemoveFromFolder(@, manifest.cache, sid)]
    /\ phase2' = [phase2 EXCEPT !.removeLeft = @ \ {sid}]
    /\ UNCHANGED <<envVars, manifestFile, tmpFile, cacheDir, pc, args, manifest,
                   planVars, dlVars, saving, exit, countVars, histVars>>

\* run_sync lines 494-496: songs becomes the fetched membership,
\* last_synced is stamped and the manifest is saved
\* (a commit that does not wait for the loops)
CommitReady_Early == TRUE
CommitReady == phase2.addLeft = {} /\ phase2.removeLeft = {}

P2Commit ==
    /\ pc = "p2_files"
    /\ CommitReady
    /\ LET playlist_id == planOrder[phase2.idx]
       IN  /\ manifest' = [manifest EXCEPT
                              !.playlists[playlist_id].songs = actions[playlist_id].songs,
                              !.playlists[playlist_id].last_synced = clock]
           /\ log' = [log EXCEPT !.materialized = @ \cup {playlist_id}]
    /\ CallSave("playlist", "p2_next")
    /\ UNCHANGED <<envVars, diskVars, args, planVars, dlVars, phase2, exit, countVars,
                   start, prev>>

\* run_sync line 498
SyncComplete ==
    /\ pc = "p2_next"
    /\ phase2.idx = Len(planOrder)
    /\ Return("complete")
    /\ UNCHANGED <<envVars, diskVars, countVars>>

\* ------------------------------------------------------ the environment
\* the process is killed: its memory is lost, the files stay as they are
\* (a kill inside save_manifest leaves the manifest path as the kill just
\* before or just after the save does)
Crash ==
    /\ pc # "idle"
    /\ ~tmpFile.exists
    /\ faults < MaxFaults
    /\ faults' = faults + 1
    /\ Return("killed")
    /\ UNCHANGED <<envVars, diskVars, clock, runs, reconciles, remoteChanges>>

\* the owner edits a playlist between two runs: one track is added, one is
\* removed, or one is exchanged for another
Edits(songs) ==
    {songs \cup {t} : t \in Tracks \ songs}
    \cup {songs \ {t} : t \in songs}
    \cup {(songs \ {t}) \cup {u} : <<t, u>> \in songs \X (Tracks \ songs)}

RemoteChange(playlist_id, songs) ==
    /\ pc = "idle"
    /\ remoteChanges < MaxRemoteChanges
    /\ runs >= 1
    /\ songs \in Edits(remote[playlist_id])
    /\ remote' = [remote EXCEPT ![playlist_id] = songs]
    /\ remoteChanges' = remoteChanges + 1
    /\ prev' = [prev EXCEPT !.stable = FALSE]
    /\ UNCHANGED <<config, retitled, tokens, call, diskVars, pc, args, manifest, planVars, dlVars, phase2,
                   saving, exit, clock, runs, reconciles, faults, start, log>>

\* the catalogue changes the name of some tracks between two runs, once
Retitle(tracks) ==
    /\ pc = "idle"
    /\ retitled = {} /\ tracks # {}
    /\ runs >= 1
    /\ retitled' = tracks
    /\ prev' = [prev EXCEPT !.stable = FALSE]
    /\ UNCHANGED <<config, remote, tokens, call, diskVars, pc, args, manifest, planVars, dlVars,
                   phase2, saving, exit, countVars, start, log>>

\* the configuration file is edited between two runs, once
ConfigChange(cfg) ==
    /\ pc = "idle"
    /\ config = DefaultConfig /\ cfg # DefaultConfig
    /\ config' = cfg
    /\ prev' = [prev EXCEPT !.stable = FALSE]
    /\ UNCHANGED <<remote, retitled, tokens, call, diskVars, pc, args, manifest, planVars, dlVars, phase2,
                   saving, exit, countVars, start, log>>

\* the credentials are taken out of the environment
LoseTokens ==
    /\ pc = "idle"
    /\ tokens
    /\ tokens' = FALSE
    /\ UNCHANGED <<config, remote, retitled, call, diskVars, pc, args, manifest, planVars, dlVars, phase2,
                   saving, exit, countVars, histVars>>

\* ------------------------------------------------------------ reconcile
\* build_track_lookup lines 48-56: the playlists whose names resolve, by the
\* manifest's playlist_url_cache first, else among the user's playlists
LookupPlaylists(m) ==
    {IF name \in DOMAIN m.playlist_url_cache THEN m.playlist_url_cache[name].id
     ELSE find_playlist_by_name(UserPlaylists, name) :
         name \in load_folder_mapping(config).all_playlist_names} \ {None}

\* build_track_lookup lines 59-67: filename -> spotify_id, first occurrence
RECURSIVE build_track_lookup(_, _)
build_track_lookup(tracks, lookup) ==
    IF tracks = <<>> THEN lookup
    ELSE LET filename == CacheFilename(Head(tracks))
         IN  build_track_lookup(Tail(tracks),
                 IF filename \in DOMAIN lookup THEN lookup
                 ELSE Put(lookup, filename, Head(tracks)))

\* (an entry that is not marked)
ReconciledEntry_Unmarked(sid, filename, now) == CacheEntry(sid, filename, now)

\* reconcile lines 128-134
ReconciledEntry(sid, filename, now) ==
    [name |-> Name(sid), artist |-> TrackArtist[sid], filename |-> filename,
     downloaded_at |-> now, reconciled |-> TRUE]

\* reconcile lines 123-136: "for filename in sorted(untracked)"
RECURSIVE MatchLoop(_, _, _, _, _)
MatchLoop(untracked, lookup, dry_run, now, acc) ==
    IF untracked = {} THEN acc
    ELSE LET filename == CHOOSE f \in untracked : TRUE
             rest == untracked \ {filename}
         IN  IF filename \in DOMAIN lookup
             THEN MatchLoop(rest, lookup, dry_run, now,
                      [acc EXCEPT !.matched = @ + 1,
                                  !.cache = IF dry_run THEN @
                                            ELSE Put(@, lookup[filename],
                                                     ReconciledEntry(lookup[filename], filename, now))])
             ELSE MatchLoop(rest, lookup, dry_run, now,
                      [acc EXCEPT !.unmatched = @ \cup {filename}])

\* (a reconcile that saves whatever the flag)
ReconcileEnd_Saves(dry_run) == CallSave("reconcile", "rec_done")

\* reconcile lines 156-160: a dry run prints, otherwise the manifest is saved
ReconcileEnd(dry_run) ==
    IF dry_run THEN pc' = "rec_done" /\ UNCHANGED saving
    ELSE CallSave("reconcile", "rec_done")

TrackedFilenames(m) == {m.cache[sid].filename : sid \in DOMAIN m.cache}

\* (a reconcile that goes on whatever it finds)
NothingToReconcile_Never(cache_exists, untracked) == FALSE

\* reconcile lines 82-84 and 102-104: the two early returns
NothingToReconcile(cache_exists, untracked) == ~cache_exists \/ untracked = {}

\* reconcile lines 76-160 up to the save: "fetched" are the playlists whose
\* fetch_tracks does not raise, "order" the order their tracks come in
ReconcileUpTo(max, dry_run, fetched, order) ==
    /\ pc = "idle"
    /\ reconciles < max
    /\ SyncError(config, tokens) = "none"
    /\ reconciles' = reconciles + 1
    /\ clock' = clock + 1
    /\ LET m == load_manifest
           untracked == cacheDir.files \ TrackedFilenames(m)
       IN  IF NothingToReconcile(cacheDir.exists, untracked)
           THEN /\ fetched = {} /\ order = <<>>
                /\ Return("nothing")
           ELSE /\ fetched \in SUBSET LookupPlaylists(m)
                /\ order \in Orderings(UNION {remote[p] : p \in fetched})
                /\ LET lookup == build_track_lookup(order, <<>>)
                       res == MatchLoop(untracked, lookup, dry_run, clock',
                                        [matched |-> 0, unmatched |-> {}, cache |-> m.cache])
                   IN  /\ manifest' = [m EXCEPT !.cache = res.cache]
                       /\ log' = [NoLog EXCEPT !.entry = "reconcile", !.args.dry_run = dry_run,
                                               !.lookup = lookup, !.matched = res.matched,
                                               !.unmatched = res.unmatched]
                /\ args' = [NoArgs EXCEPT !.dry_run = dry_run]
                /\ start' = [manifestFile |-> manifestFile, cacheDir |-> cacheDir,
                             folderFiles |-> folderFiles]
                /\ ReconcileEnd(dry_run)
                /\ UNCHANGED <<planVars, dlVars, phase2, exit, prev>>
    /\ UNCHANGED <<envVars, diskVars, runs, remoteChanges, faults>>

Reconcile(dry_run, fetched, order) == ReconcileUpTo(MaxReconciles, dry_run, fetched, order)

\* reconcile lines 157-160: the last message, then the return
ReconcileDone ==
    /\ pc = "rec_done"
    /\ Return("reconciled")
    /\ UNCHANGED <<envVars, diskVars, countVars>>

\* ------------------------------------------------------- specification
\* the calls of run_sync that are made: plain, --dry-run, --limit 1,
\* --limit-playlists 1 and --multi-core 2
ArgChoices ==
    {NoArgs, [NoArgs EXCEPT !.dry_run = TRUE], [NoArgs EXCEPT !.limit = 1],
     [NoArgs EXCEPT !.limit_playlists = 1], [NoArgs EXCEPT !.multi_core = 2]}

\* the steps of run_sync once it has been called
SyncSteps ==
    \/ \E name \in namesLeft : ResolveName(name)
    \/ Plan
    \/ SyncDryRun
    \/ Phase1Begin
    \/ \E w \in DOMAIN workers : WorkerCheck(w)
    \/ \E w \in DOMAIN workers : WorkerFetch(w)
    \/ \E w \in DOMAIN workers : WorkerFetchFail(w)
    \/ \E w \in DOMAIN workers : WorkerRaise(w)
    \/ CheckDownloads
    \/ P2Next
    \/ \E sid \in Tracks : P2Copy(sid)
    \/ \E sid \in Tracks : P2Remove(sid)
    \/ P2Commit
    \/ SyncComplete
    \/ SaveMkstemp \/ SaveWrite \/ SaveReplace

\* Spec: every kind of call of run_sync, on a remote that is edited
\* between the calls; no process is killed and no save fails
Next ==
    \/ \E a \in ArgChoices : SyncStart(a.dry_run, a.limit, a.limit_playlists, a.multi_core)
    \/ SyncSteps
    \/ \E playlist_id \in Playlists, songs \in SUBSET Tracks : RemoteChange(playlist_id, songs)

Spec == Init /\ [][Next]_vars

\* SpecFault: plain and dry calls of run_sync; the process may be killed
\* at any step and a save may fail
NextFault ==
    \/ \E dry_run \in BOOLEAN : SyncStart(dry_run, 0, 0, 0)
    \/ SyncSteps
    \/ SaveWriteFail \/ SaveReplaceFail \/ SaveExcept
    \/ Crash
    \/ \E playlist_id \in Playlists, songs \in SUBSET Tracks : RemoteChange(playlist_id, songs)

SpecFault == Init /\ [][NextFault]_vars

\* SpecReconcile: as SpecFault, and reconcile is called between the runs
NextReconcile ==
    \/ NextFault
    \/ \E dry_run \in BOOLEAN, fetched \in SUBSET Playlists :
           \E order \in Orderings(UNION {remote[p] : p \in fetched}) :
               Reconcile(dry_run, fetched, order)
    \/ ReconcileDone

SpecReconcile == Init /\ [][NextReconcile]_vars

\* SpecRetitle: plain calls of run_sync, with a downloader that succeeds,
\* and of reconcile, on a catalogue that edits a playlist and gives the two
\* recordings of one song a new name between the calls; the process may be
\* killed at any step
RetitledTracks == {"t1", "t2"}
NextRetitle ==
    \/ SyncStart(FALSE, 0, 0, 0)
    \/ \E name \in namesLeft : ResolveName(name)
    \/ Plan
    \/ Phase1Begin
    \/ \E w \in DOMAIN workers : WorkerCheck(w)
    \/ \E w \in DOMAIN workers : WorkerFetch(w)
    \/ CheckDownloads
    \/ P2Next
    \/ \E sid \in Tracks : P2Copy(sid)
    \/ \E sid \in Tracks : P2Remove(sid)
    \/ P2Commit
    \/ SyncComplete
    \/ SaveMkstemp \/ SaveWrite \/ SaveReplace
    \/ Crash
    \/ \E playlist_id \in Playlists, songs \in SUBSET Tracks : RemoteChange(playlist_id, songs)
    \/ Retitle(RetitledTracks)
    \/ \E dry_run \in BOOLEAN, fetched \in SUBSET Playlists :
           \E order \in Orderings(UNION {remote[p] : p \in fetched}) :
               Reconcile(dry_run, fetched, order)
    \/ ReconcileDone

SpecRetitle == Init /\ [][NextRetitle]_vars

\* SpecTwice: as SpecRetitle, and reconcile is called a second time
NextTwice ==
    \/ SyncStart(FALSE, 0, 0, 0)
    \/ \E name \in namesLeft : ResolveName(name)
    \/ Plan
    \/ Phase1Begin
    \/ \E w \in DOMAIN workers : WorkerCheck(w)
    \/ \E w \in DOMAIN workers : WorkerFetch(w)
    \/ CheckDownloads
    \/ P2Next
    \/ \E sid \in Tracks : P2Copy(sid)
    \/ \E sid \in Tracks : P2Remove(sid)
    \/ P2Commit
    \/ SyncComplete
    \/ SaveMkstemp \/ SaveWrite \/ SaveReplace
    \/ Crash
    \/ \E playlist_id \in Playlists, songs \in SUBSET Tracks : RemoteChange(playlist_id, songs)
    \/ Retitle(RetitledTracks)
    \/ \E dry_run \in BOOLEAN, fetched \in SUBSET Playlists :
           \E order \in Orderings(UNION {remote[p] : p \in fetched}) :
               ReconcileUpTo(MaxRepeats, dry_run, fetched, order)
    \/ ReconcileDone

SpecTwice == Init /\ [][NextTwice]_vars

\* ------------------------------------------------- the pure functions
\* the arguments of the direct calls: a reference file of 0..MaxLines lines
\* for 2..MaxCpu workers; a track by artist "A" whose name is a run of "a"
\* that brings the file name close to 200 bytes, followed by up to MaxTail
\* characters of one to four bytes, spaces, illegal characters or ";"
Repeat(c, n) == [i \in 1..n |-> c]
TailChars == {97, 32, 58, 59, 233, 8364, 128512}
Tails == UNION {[1..n -> TailChars] : n \in 0..MaxTail}
PartitionCalls ==
    {[NoCall EXCEPT !.fn = "FileSegments",
                    !.args = [lines |-> [i \in 1..n |-> i], multi_core |-> k]] :
        n \in 0..MaxLines, k \in 2..MaxCpu}
FilenameCalls ==
    {[NoCall EXCEPT !.fn = "generate_filename",
                    !.args = [name |-> Repeat(97, pad) \o tail, artist |-> <<65>>]] :
        pad \in {0} \cup ((MAX_BYTES - 9)..MaxPad), tail \in Tails}

BatchCalls == {[c EXCEPT !.fn = "download_to_cache_batch"] : c \in FilenameCalls}

InitPure == Fresh /\ call \in PartitionCalls \cup FilenameCalls \cup BatchCalls

Returns(fn, ret) ==
    /\ call.fn = fn /\ ~call.done
    /\ call' = [call EXCEPT !.done = TRUE, !.ret = ret]
    /\ UNCHANGED <<config, remote, retitled, tokens, diskVars, pc, args, manifest, planVars, dlVars,
                   phase2, saving, exit, countVars, histVars>>

CallFileSegments == Returns("FileSegments", FileSegments(call.args.lines, call.args.multi_core))
CallGenerateFilename ==
    Returns("generate_filename", generate_filename(call.args.name, call.args.artist))
\* download_to_cache_batch for one track that is not in the cache, with a
\* downloader that succeeds: the file written and the file checked
CallDownloadToCacheBatch ==
    LET written == mp3file_name(csv_row(call.args.name, call.args.artist))
        checked == generate_filename(call.args.name, call.args.artist) \o Str_mp3
    IN  Returns("download_to_cache_batch",
                [written |-> written, checked |-> checked,
                 results |-> IF checked \in {written} THEN {checked} ELSE {}])

NextPure == CallFileSegments \/ CallGenerateFilename \/ CallDownloadToCacheBatch

SpecPure == InitPure /\ [][NextPure]_vars

\* SpecResolve: find_playlist_by_name is called on a dict of playlists named
\* "M" or "m" for one of these names or "X"; then run_sync is called on the
\* user's playlists
PlaylistIds == (Name_M :> "p1") @@ (Name_m :> "p4")
FindCalls ==
    {[NoCall EXCEPT !.fn = "find_playlist_by_name",
                    !.args = [user_playlists |-> [n \in names |-> PlaylistIds[n]],
                              playlist_name |-> name]] :
        names \in SUBSET DOMAIN PlaylistIds, name \in DOMAIN PlaylistIds \cup {Name_X}}

InitResolve == Fresh /\ call \in FindCalls \cup {NoCall}

CallFindPlaylistByName ==
    Returns("find_playlist_by_name",
            find_playlist_by_name(call.args.user_playlists, call.args.playlist_name))

NextResolve ==
    \/ CallFindPlaylistByName
    \/ (call.fn = "none" \/ call.done) /\ \E dry_run \in BOOLEAN : SyncStart(dry_run, 0, 0, 0)
    \/ SyncSteps
    \/ \E playlist_id \in Playlists, songs \in SUBSET Tracks : RemoteChange(playlist_id, songs)

SpecResolve == InitResolve /\ [][NextResolve]_vars

\* SpecLookup: build_track_lookup is called under each valid configuration,
\* on playlists of any content, with a manifest that memoises no name, the
\* names "m" and "G", or "G" alone; a fetch_tracks may raise, the tracks of
\* a playlist come in any order and the names in any order
Memos ==
    {<<>>,
     (Name_G :> [id |-> "p2", url |-> PlaylistUrl("p2")]),
     (Name_m :> [id |-> "p1", url |-> PlaylistUrl("p1")])
         @@ (Name_G :> [id |-> "p2", url |-> PlaylistUrl("p2")])}
LookupCalls ==
    {[NoCall EXCEPT !.fn = "build_track_lookup",
                    !.args = [manifest |-> [EmptyManifest EXCEPT !.playlist_url_cache = memo]]] :
        memo \in Memos}

InitLookup ==
    /\ config \in ValidConfigs
    /\ remote \in [Playlists -> SUBSET Tracks]
    /\ NothingSynced
    /\ call \in LookupCalls

\* fetch_tracks of each playlist of ps: playlist id -> its tracks in an order
RECURSIVE TrackOrders(_)
TrackOrders(ps) ==
    IF ps = {} THEN {<<>>}
    ELSE LET p == CHOOSE q \in ps : TRUE
         IN  {(p :> o) @@ f : o \in Orderings(remote[p]), f \in TrackOrders(ps \ {p})}

CallBuildTrackLookup(fetched, names, tracks) ==
    /\ fetched \subseteq LookupPlaylists(call.args.manifest)
    /\ Returns("build_track_lookup",
               [fetched |-> fetched, order |-> Concat(names, tracks),
                lookup |-> build_track_lookup(Concat(names, tracks), <<>>)])

NextLookup ==
    \E fetched \in SUBSET Playlists :
        \E names \in Orderings(fetched), tracks \in TrackOrders(fetched) :
            CallBuildTrackLookup(fetched, names, tracks)

SpecLookup == InitLookup /\ [][NextLookup]_vars

\* SpecConfig: plain and dry calls of run_sync; the configuration file is
\* edited and the credentials are lost between them
NextConfig ==
    \/ \E dry_run \in BOOLEAN : SyncStart(dry_run, 0, 0, 0)
    \/ SyncSteps
    \/ SyncFatal
    \/ \E cfg \in Configs : ConfigChange(cfg)
    \/ LoseTokens
    \/ \E playlist_id \in Playlists, songs \in SUBSET Tracks : RemoteChange(playlist_id, songs)

SpecConfig == Init /\ [][NextConfig]_vars

\* =============================================================== claims
\* the songs the manifest file f records for a playlist, none without record
SongsIn(f, playlist_id) ==
    IF f.exists /\ playlist_id \in DOMAIN f.doc.playlists
    THEN f.doc.playlists[playlist_id].songs ELSE {}
CacheKeys(f) == IF f.exists THEN DOMAIN f.doc.cache ELSE {}

InSync == log.entry = "sync"
\* this run_sync follows one that ended as "how", with the same arguments,
\* and nothing has changed in between
Follows(how) == InSync /\ exit \in how /\ prev.entry = "sync" /\ prev.stable
AtEnd == pc = "p2_next" /\ phase2.idx = Len(planOrder)

\* C1 (as claimed): a track whose download failed in a completed run, the
\* remote being unchanged, is in to_add and needs_download of its playlist
\* in the next run.
C1_FailedTrackRetried ==
    (pc = "planned" /\ Follows({"complete"})) =>
        \A playlist_id \in DOMAIN actions \cap DOMAIN prev.plan :
            \A sid \in prev.failed \cap prev.plan[playlist_id].to_add :
                /\ sid \in actions[playlist_id].to_add
                /\ sid \in actions[playlist_id].needs_download

\* C2 (as claimed): a track that two playlists of the plan need, with no
\* CacheEntry and no file, is downloaded at most once in the run, and once
\* it has been downloaded its file ends in both playlist folders.
SharedNeeded(sid) ==
    /\ Cardinality({q \in DOMAIN actions : sid \in actions[q].needs_download}) >= 2
    /\ CacheFilename(sid) \notin start.cacheDir.files
C2_SharedTrackAcquiredOnce ==
    InSync =>
        \A sid \in Tracks : SharedNeeded(sid) =>
            /\ log.acquired[sid] <= 1
            /\ (AtEnd /\ log.acquired[sid] >= 1 /\ sid \in Range(all_downloads)) =>
                   \A q \in DOMAIN actions : sid \in actions[q].needs_download =>
                       CacheFilename(sid) \in FilesOf(actions[q].playlist_dir)

\* C3 (as claimed): the run after a completed run, same arguments, remote
\* unchanged: every playlist of the plan has empty to_add and to_remove.
C3_SecondRunDoesNothing ==
    (pc = "planned" /\ Follows({"complete"}) /\ prev.args = args) =>
        \A playlist_id \in DOMAIN actions :
            actions[playlist_id].to_add = {} /\ actions[playlist_id].to_remove = {}

\* C3 (amended): ... every playlist of the second plan that the first run
\* synced has empty to_add and to_remove; when the second run syncs only
\* such playlists, which is always so without a playlist limit, it passes
\* nothing to the downloader and changes no file of the cache or a folder.
C3_Idempotent ==
    (Follows({"complete"}) /\ prev.args = log.args) =>
        /\ pc = "planned" =>
              \A playlist_id \in DOMAIN actions \cap prev.committed :
                  actions[playlist_id].to_add = {} /\ actions[playlist_id].to_remove = {}
        /\ (pc = "planned" /\ log.args.limit_playlists = 0) =>
              DOMAIN actions \subseteq prev.committed
        /\ DOMAIN actions \subseteq prev.committed =>
              /\ log.handed = {}
              /\ \A sid \in Tracks : log.acquired[sid] = 0
              /\ cacheDir.files = start.cacheDir.files
              /\ folderFiles = start.folderFiles
C3_Witness ==
    /\ AtEnd /\ Follows({"complete"}) /\ prev.args = log.args
    /\ \E playlist_id \in DOMAIN actions \cap prev.committed : remote[playlist_id] # {}

\* C7: in the plan, to_add is the fetched songs that the loaded manifest
\* does not record for the playlist, to_remove the recorded ones that were
\* not fetched; they are disjoint; without record the diff is against {}.
C7_DiffCorrect ==
    pc = "planned" =>
        \A playlist_id \in DOMAIN actions :
            LET a == actions[playlist_id]
                recorded == SongsIn(start.manifestFile, playlist_id)
            IN  /\ \A sid \in Tracks :
                      /\ sid \in a.to_add <=> (sid \in remote[playlist_id] /\ sid \notin recorded)
                      /\ sid \in a.to_remove <=> (sid \in recorded /\ sid \notin remote[playlist_id])
                /\ a.to_add \cap a.to_remove = {}
C7_Witness ==
    /\ pc = "planned"
    /\ \E playlist_id \in DOMAIN actions :
          actions[playlist_id].to_add # {} /\ actions[playlist_id].to_remove # {}
    /\ \E playlist_id \in DOMAIN actions :
          /\ playlist_id \notin DOMAIN start.manifestFile.doc.playlists
          /\ actions[playlist_id].to_add = remote[playlist_id]
          /\ remote[playlist_id] # {}

\* C8: needs_download and needs_copy split to_add by the keys of the
\* manifest cache, and no track that had a CacheEntry when the run started
\* is passed to the downloader.
C8_CacheReuse ==
    InSync =>
        /\ pc = "planned" =>
              \A playlist_id \in DOMAIN actions :
                  LET a == actions[playlist_id]
                  IN  /\ a.needs_download \cup a.needs_copy = a.to_add
                      /\ a.needs_download \cap a.needs_copy = {}
                      /\ a.needs_copy = a.to_add \cap CacheKeys(start.manifestFile)
        /\ log.handed \cap CacheKeys(start.manifestFile) = {}
        /\ \A w \in DOMAIN workers : Range(workers[w].lines) \cap CacheKeys(start.manifestFile) = {}
C8_Witness ==
    /\ pc = "download"
    /\ \E playlist_id \in DOMAIN actions : actions[playlist_id].needs_copy # {}

\* C10 (as claimed): when a dry run has shown its plan and returns, the
\* manifest file, the cache directory and every playlist folder are as they
\* were when it was called, and nothing was passed to the downloader.
C10_DryRunChangesNothing ==
    (pc = "planned" /\ args.dry_run) =>
        /\ manifestFile = start.manifestFile
        /\ cacheDir = start.cacheDir
        /\ folderFiles = start.folderFiles
        /\ log.handed = {}
        /\ \A sid \in Tracks : log.acquired[sid] = 0

\* C4: a save that fails after the temporary file was made leaves the
\* manifest file as it was when save_manifest was called, removes the
\* temporary file and ends the caller with the error; and the manifest
\* path never holds a partly written document.
C4_FailedSaveStep ==
    (pc = "saving" /\ saving.stage = "except" /\ pc' = "idle") =>
        /\ manifestFile' = saving.before
        /\ ~tmpFile'.exists
        /\ exit' = "error"
C4_SaveAtomic ==
    /\ [](manifestFile.whole)
    /\ []((pc = "saving" /\ saving.stage \in {"write", "replace", "except"}) =>
              manifestFile = saving.before)
    /\ [][C4_FailedSaveStep]_vars
C4_Witness ==
    /\ exit = "error" /\ pc = "idle"
    /\ manifestFile.exists /\ manifestFile.doc.cache # <<>>
    /\ ~tmpFile.exists

\* C5: at every point of a run_sync, the songs the manifest file records
\* for a playlist are those recorded when the run started or the snapshot
\* fetched in this run; they differ from the start only when every copy and
\* remove step of the playlist has been executed; a playlist whose save is
\* done holds the snapshot and the time of its commit.
IndexOf(playlist_id) ==
    IF playlist_id \in Range(planOrder)
    THEN CHOOSE i \in 1..Len(planOrder) : planOrder[i] = playlist_id ELSE 0
Materialized(playlist_id) ==
    LET i == IndexOf(playlist_id)
    IN  /\ i > 0
        /\ \/ i < phase2.idx
           \/ i = phase2.idx /\ phase2.addLeft = {} /\ phase2.removeLeft = {}
C5_PerPlaylistCommit ==
    InSync =>
        \A playlist_id \in Playlists :
            LET before == SongsIn(start.manifestFile, playlist_id)
                now == SongsIn(manifestFile, playlist_id)
            IN  /\ \/ now = before
                   \/ playlist_id \in DOMAIN actions /\ now = actions[playlist_id].songs
                /\ now # before => Materialized(playlist_id)
                /\ playlist_id \in log.committed =>
                      /\ now = actions[playlist_id].songs
                      /\ manifestFile.doc.playlists[playlist_id].last_synced = clock
C5_Witness ==
    /\ pc = "p2_files" /\ phase2.addLeft \cup phase2.removeLeft # {}
    /\ \E playlist_id \in log.committed :
          SongsIn(manifestFile, playlist_id) # SongsIn(start.manifestFile, playlist_id)
    /\ LET playlist_id == planOrder[phase2.idx]
       IN  /\ SongsIn(start.manifestFile, playlist_id) # {}
           /\ SongsIn(manifestFile, playlist_id) = SongsIn(start.manifestFile, playlist_id)
           /\ actions[playlist_id].songs # SongsIn(start.manifestFile, playlist_id)

\* C6: the run after one that was ended after its Phase 1 save and before
\* any playlist save, remote unchanged, plans for every playlist of both
\* plans the same to_add and to_remove, has the tracks that the ended run
\* downloaded in needs_copy, and passes none of them to the downloader.
C6_PartialRunRecovery ==
    (Follows({"killed", "error"}) /\ prev.phase1Saved /\ prev.committed = {}) =>
        /\ pc = "planned" =>
              \A playlist_id \in DOMAIN actions \cap DOMAIN prev.plan :
                  /\ actions[playlist_id].to_add = prev.plan[playlist_id].to_add
                  /\ actions[playlist_id].to_remove = prev.plan[playlist_id].to_remove
                  /\ actions[playlist_id].to_add \cap prev.downloaded
                         \subseteq actions[playlist_id].needs_copy
        /\ log.handed \cap prev.downloaded = {}
        /\ \A w \in DOMAIN workers : Range(workers[w].lines) \cap prev.downloaded = {}
C6_Witness ==
    /\ pc = "download"
    /\ Follows({"killed", "error"}) /\ prev.phase1Saved /\ prev.committed = {}
    /\ \E playlist_id \in DOMAIN actions \cap DOMAIN prev.plan :
          actions[playlist_id].needs_copy \cap prev.downloaded # {}

\* C9: when a reconcile that is no dry run has saved, every .mp3 of the
\* cache directory that no CacheEntry named when it started and that is the
\* derived filename of a track of the lookup has a CacheEntry keyed by that
\* track, with that filename and reconciled = TRUE, in the manifest file;
\* every other such file is reported unmatched and no entry names it; the
\* former entries are as they were, and the entries written are as many as
\* the matched files.
Untracked == start.cacheDir.files \ TrackedFilenames(start.manifestFile.doc)
C9_ReconcileMatches ==
    (pc = "rec_done" /\ log.entry = "reconcile" /\ ~log.args.dry_run) =>
        LET old == start.manifestFile.doc.cache
            new == manifestFile.doc.cache
            inLookup == {f \in Untracked :
                            \E g \in DOMAIN log.lookup : CacheFilename(log.lookup[g]) = f}
        IN  /\ \A f \in inLookup :
                  /\ log.lookup[f] \in DOMAIN new
                  /\ CacheFilename(log.lookup[f]) = f
                  /\ new[log.lookup[f]].filename = f
                  /\ new[log.lookup[f]].reconciled
                  /\ f \notin log.unmatched
            /\ \A f \in Untracked \ inLookup :
                  /\ f \in log.unmatched
                  /\ \A sid \in DOMAIN new : new[sid].filename # f
            /\ \A sid \in DOMAIN old : sid \in DOMAIN new /\ new[sid] = old[sid]
            /\ Cardinality(DOMAIN new \ DOMAIN old) = Cardinality(inLookup)
            /\ log.matched = Cardinality(inLookup)
            /\ inLookup = {} => manifestFile.doc = start.manifestFile.doc
C9_Witness ==
    /\ pc = "rec_done" /\ log.entry = "reconcile" /\ ~log.args.dry_run
    /\ log.matched >= 1 /\ log.unmatched # {}
    /\ manifestFile.doc.cache # start.manifestFile.doc.cache

\* (what the next property is stated with)
C11_DryStep ==
    (log.entry = "reconcile" /\ log.args.dry_run) =>
        manifestFile' = manifestFile /\ tmpFile' = tmpFile
\* C11: a dry reconcile counts the matched files and lists the unmatched
\* ones as the matching without the flag does on the same manifest, cache
\* directory and lookup, and no step of it writes the manifest file or a
\* temporary file.
C11_DryReconcile ==
    /\ []((pc = "rec_done" /\ log.entry = "reconcile" /\ log.args.dry_run) =>
            LET wet == MatchLoop(Untracked, log.lookup, FALSE, clock,
                                 [matched |-> 0, unmatched |-> {},
                                  cache |-> start.manifestFile.doc.cache])
            IN  /\ log.matched = wet.matched
                /\ log.unmatched = wet.unmatched
                /\ manifestFile = start.manifestFile
                /\ ~tmpFile.exists)
    /\ [][C11_DryStep]_vars
C11_Witness ==
    /\ pc = "rec_done" /\ log.entry = "reconcile" /\ log.args.dry_run
    /\ log.matched >= 1 /\ log.unmatched # {}

\* (what the next property is stated with)
C12_KeysKept ==
    /\ CacheKeys(manifestFile) \subseteq CacheKeys(manifestFile')
    /\ manifestFile.exists =>
          /\ manifestFile'.exists
          /\ DOMAIN manifestFile.doc.playlists \subseteq DOMAIN manifestFile'.doc.playlists
C13_Refused ==
    \/ ~config.exists
    \/ ~config.has_output_dir
    \/ config.playlists = <<>> /\ \A f \in DOMAIN config.folders : config.folders[f] = {}
    \/ ~tokens
    \/ (\E f \in DOMAIN config.folders : config.folders[f] # {}) /\ config.spotify_user_id = None
C13_FatalStep ==
    (pc = "idle" /\ runs' = runs + 1 /\ C13_Refused) =>
        /\ pc' = "idle" /\ exit' = "fatal"
        /\ manifestFile' = manifestFile /\ tmpFile' = tmpFile
\* C13: a run_sync called with no configuration file, no output_dir, no
\* playlist, names but no spotify_user_id, or no credentials ends with exit
\* status 1 in a step that leaves the manifest file alone and makes no
\* temporary file; no such call gets to the steps that save.
C13_FatalBeforeWrite ==
    /\ [](C13_Refused => pc = "idle")
    /\ [][C13_FatalStep]_vars
C13_Witness ==
    /\ exit = "fatal" /\ pc = "idle"
    /\ manifestFile.exists /\ manifestFile.doc.cache # <<>>

\* (what the next property is stated with)
BatchFiles == {sid \in Range(all_downloads) : CacheFilename(sid) \in cacheDir.files}
C14_ReturnStep ==
    (InSync /\ ~args.dry_run /\ pc' = "idle") =>
        AtEnd /\ log.committed = Range(planOrder)
\* C14: when the downloader has returned, with or without an exception and
\* whatever files are missing, the cache of the manifest gains an entry for
\* just the tracks of the batch whose file is in the cache directory, and
\* it is saved so; a run that is no dry run returns only when Phase 2 has
\* committed every playlist of the plan.
C14_FailureNeverAborts ==
    /\ []((pc = "saving" /\ saving.what = "phase1") =>
            /\ DOMAIN manifest.cache = CacheKeys(start.manifestFile) \cup BatchFiles
            /\ \A sid \in BatchFiles : manifest.cache[sid].filename = CacheFilename(sid))
    /\ []((InSync /\ log.phase1Saved) =>
            CacheKeys(manifestFile) = CacheKeys(start.manifestFile) \cup BatchFiles)
    /\ [][C14_ReturnStep]_vars
C14_Witness ==
    /\ AtEnd /\ log.phase1Saved
    /\ log.failed # {} /\ BatchFiles # {}
    /\ Len(planOrder) = 2 /\ log.committed = Range(planOrder)

\* (what the next property is stated with)
C15_DownloadStep ==
    pc = "download" =>
        /\ manifestFile' = manifestFile /\ tmpFile' = tmpFile
        /\ pc' # "download" => \A w \in DOMAIN workers : workers[w].lines = <<>>
\* C15: no step taken while the downloader runs changes the manifest file or
\* makes a temporary file, and the parent goes on to its save only when
\* every worker has read all its lines.
C15_SingleWriter == [][C15_DownloadStep]_vars
C15_Witness ==
    /\ pc = "download" /\ Len(workers) = 2
    /\ \A w \in DOMAIN workers : workers[w].lines # <<>>
    /\ manifestFile.exists

\* ---------------------------------------------------------------- C16
\* C16: for n lines and k > 1 workers the k slices, put one after the other
\* in worker order, are the list of lines itself (so they are contiguous, in
\* the original order, pairwise disjoint and hold every line exactly once);
\* their sizes differ by at most one and exactly the first n mod k workers
\* have the larger size.
C16_Partition ==
    (call.fn = "FileSegments" /\ call.done) =>
        LET lines == call.args.lines
            k == call.args.multi_core
            n == Len(lines)
            slice == call.ret
        IN  /\ k > 1
            /\ DOMAIN slice = 1..k
            /\ Concat([c \in 1..k |-> c], slice) = lines
            /\ \A c, d \in 1..k :
                  /\ Len(slice[c]) - Len(slice[d]) <= 1
                  /\ (c # d) => Range(slice[c]) \cap Range(slice[d]) = {}
            /\ \A c \in 1..k :
                  Len(slice[c]) = (n \div k) + (IF c <= n % k THEN 1 ELSE 0)

\* a call whose lines do not divide evenly among the workers has returned
C16_Witness ==
    /\ call.fn = "FileSegments" /\ call.done
    /\ Len(call.args.lines) > call.args.multi_core
    /\ Len(call.args.lines) % call.args.multi_core > 1
    /\ Len(call.ret[1]) = Len(call.ret[call.args.multi_core]) + 1

\* ---------------------------------------------------------------- C20
\* (what the next property is stated with)
C20_Scalar(c) == c \in 0..1114111 /\ c \notin 55296..57343
\* C20: the value generate_filename returns is determined by (name, artist)
\* alone; its UTF-8 encoding is at most 200 bytes long; it is text made of
\* whole characters of the untruncated file name, from its start (a character
\* the cut falls into is left out, nothing stands in its place); a name that
\* fits is returned as it is.
C20_WithinLimit ==
    (call.fn = "generate_filename" /\ call.done) =>
        LET filename == default_filename(call.args.name, call.args.artist)
            ret == call.ret
        IN  /\ ret = generate_filename(call.args.name, call.args.artist)
            /\ Len(Utf8Encode(ret)) <= 200
            /\ Len(ret) <= Len(filename)
            /\ ret = SubSeq(filename, 1, Len(ret))
            /\ \A i \in 1..Len(ret) : C20_Scalar(ret[i])
            /\ (Len(Utf8Encode(filename)) <= 200) => ret = filename

\* a name was cut inside a character of several bytes, and the character is
\* not in the result
C20_Witness ==
    /\ call.fn = "generate_filename" /\ call.done
    /\ LET filename == default_filename(call.args.name, call.args.artist)
       IN  /\ Len(call.ret) < Len(filename)
           /\ filename[Len(call.ret) + 1] >= 128
           /\ Len(Utf8Encode(call.ret)) < 200
           /\ Len(Utf8Encode(SubSeq(filename, 1, Len(call.ret) + 1))) > 200

\* ---------------------------------------------------------------- C17
\* the PlaylistRecord of a playlist in a manifest file, the directories of a
\* playlist (under any folder) with their files
RecordIn(f, playlist_id) ==
    IF f.exists /\ playlist_id \in DOMAIN f.doc.playlists
    THEN <<f.doc.playlists[playlist_id]>> ELSE <<>>
DirsOf(ff, playlist_id) ==
    [d \in {e \in DOMAIN ff : e[Len(e)] = sanitize_path(ItemName(playlist_id))} |-> ff[d]]

\* (what the next property is stated with)
C17_BatchStep ==
    (pc = "download") =>
        /\ all_downloads' = all_downloads \/ pc' = "idle"
        /\ to_download' = to_download \/ pc' = "idle"
        /\ \A w \in DOMAIN workers : w \in DOMAIN workers' =>
               Range(workers'[w].lines) \subseteq Range(workers[w].lines)
\* C17: with limit > 0 the batch holds at most limit tracks, the tracks passed
\* to the downloader are tracks of the batch, and the batch does not change
\* while the downloaders run; with limit_playlists > 0 at most limit_playlists
\* playlists are fetched, planned and committed, and a playlist beyond the
\* limit has its PlaylistRecord and its folder as they were at the start.
C17_LimitsBeforeExecution ==
    /\ []((InSync /\ log.args.limit > 0) =>
            /\ Cardinality(log.handed) <= log.args.limit
            /\ Cardinality({sid \in Tracks : log.acquired[sid] > 0}) <= log.args.limit
            /\ (pc \in {"download", "dl_check"}) =>
                   /\ Len(all_downloads) <= log.args.limit
                   /\ log.handed \subseteq Range(all_downloads))
    /\ []((InSync /\ log.args.limit_playlists > 0) =>
            /\ (pc # "resolve" /\ saving.what # "url_cache") =>
                   Len(playlists_to_sync) <= log.args.limit_playlists
            /\ Cardinality(DOMAIN log.plan) <= log.args.limit_playlists
            /\ Cardinality(DOMAIN actions) <= log.args.limit_playlists
            /\ log.committed \subseteq DOMAIN log.plan
            /\ \A playlist_id \in Playlists \ DOMAIN log.plan :
                  /\ RecordIn(manifestFile, playlist_id) = RecordIn(start.manifestFile, playlist_id)
                  /\ DirsOf(folderFiles, playlist_id) = DirsOf(start.folderFiles, playlist_id))
    /\ [][C17_BatchStep]_vars

\* a run with --limit-playlists 1 has committed its one playlist and has left
\* alone a second playlist that has songs to add; the run before it, with
\* --limit 1, downloaded one track of a playlist that needed two
C17_Witness ==
    /\ InSync /\ log.args.limit_playlists = 1 /\ AtEnd
    /\ Cardinality(log.committed) = 1
    /\ \E playlist_id \in Playlists \ DOMAIN log.plan :
          remote[playlist_id] \ SongsIn(manifestFile, playlist_id) # {}
    /\ prev.entry = "sync" /\ prev.args.limit = 1
    /\ Cardinality(prev.downloaded) = 1
    /\ \E q \in DOMAIN prev.plan : Cardinality(prev.plan[q].to_add) >= 2

\* ---------------------------------------------------------------- C18
\* C18: when a run_sync that is no dry run has committed its playlists, the
\* folder persisted for each of them is the folder the configuration maps
\* the name it was synced under to, no folder when the name is not mapped,
\* whether its songs changed or not; and to_add and to_remove of the plan are
\* the difference between the remote songs and the recorded songs, whatever
\* the folder was.
C18_FolderRefreshed ==
    (InSync /\ ~args.dry_run) =>
        /\ (AtEnd /\ log.committed = DOMAIN log.plan) =>
               \A playlist_id \in DOMAIN log.plan :
                   manifestFile.doc.playlists[playlist_id].folder =
                       get_playlist_folder(actions[playlist_id].playlist_name,
                                           load_folder_mapping(config).reverse_mapping)
        /\ \A playlist_id \in DOMAIN log.plan :
              LET recorded == SongsIn(start.manifestFile, playlist_id)
              IN  /\ log.plan[playlist_id].to_add = remote[playlist_id] \ recorded
                  /\ log.plan[playlist_id].to_remove = recorded \ remote[playlist_id]

\* a completed run has moved a playlist to another folder while its songs
\* were the recorded ones
C18_Witness ==
    /\ InSync /\ ~args.dry_run /\ AtEnd /\ log.committed = DOMAIN log.plan
    /\ \E playlist_id \in DOMAIN log.plan :
          /\ RecordIn(start.manifestFile, playlist_id) # <<>>
          /\ start.manifestFile.doc.playlists[playlist_id].folder = Folder_F
          /\ manifestFile.doc.playlists[playlist_id].folder = Folder_H
          /\ SongsIn(start.manifestFile, playlist_id) # {}
          /\ log.plan[playlist_id].to_add = {} /\ log.plan[playlist_id].to_remove = {}

\* ---------------------------------------------------------------- C19
\* C19: find_playlist_by_name returns the entry of the requested name itself
\* when the dict has it, also when other names differ from it in case only;
\* else the entry of a name that differs in case only; else None.  In
\* run_sync, once the names are looked up, the list of playlists holds every
\* configured name that some playlist of the user matches, with the playlist
\* of exactly that name when there is one, and no other name; the run goes on
\* and commits them.
C19_Resolved ==
    /\ (call.fn = "find_playlist_by_name" /\ call.done) =>
           LET user_playlists == call.args.user_playlists
               name == call.args.playlist_name
               alike == {n \in DOMAIN user_playlists : Lower(n) = Lower(name)}
           IN  /\ (name \in DOMAIN user_playlists) => call.ret = user_playlists[name]
               /\ (name \notin DOMAIN user_playlists /\ alike # {}) =>
                      \E n \in alike : call.ret = user_playlists[n]
               /\ (alike = {}) => call.ret = None
    /\ (InSync /\ pc # "resolve" /\ saving.what # "url_cache") =>
           LET names == UNION {{IF EndsWith(x, Str_json) THEN SubSeq(x, 1, Len(x) - 5) ELSE x :
                                   x \in config.folders[f]} : f \in DOMAIN config.folders}
               found == {n \in names : \E u \in DOMAIN UserPlaylists : Lower(u) = Lower(n)}
           IN  /\ {playlists_to_sync[i][2] : i \in 1..Len(playlists_to_sync)} = found
               /\ \A i \in 1..Len(playlists_to_sync) :
                      LET name == playlists_to_sync[i][2]
                      IN  /\ (name \in DOMAIN UserPlaylists) =>
                                 playlists_to_sync[i][1] = UserPlaylists[name]
                          /\ \E u \in DOMAIN UserPlaylists :
                                 /\ Lower(u) = Lower(name)
                                 /\ playlists_to_sync[i][1] = UserPlaylists[u]
               /\ AtEnd => log.committed = {playlists_to_sync[i][1] : i \in 1..Len(playlists_to_sync)}

\* the direct call has preferred the exact name to one that differs in case
\* and the run has skipped "X" and has committed "m" and "G"
C19_Witness ==
    /\ call.fn = "find_playlist_by_name" /\ call.done
    /\ call.args.playlist_name = Name_m
    /\ DOMAIN call.args.user_playlists = {Name_M, Name_m}
    /\ call.ret = "p4"
    /\ InSync /\ AtEnd
    /\ Name_X \in config.folders[Folder_F]
    /\ {playlists_to_sync[i][2] : i \in 1..Len(playlists_to_sync)} = {Name_m, Name_G}
    /\ log.committed = {"p1", "p2"}

\* ---------------------------------------------------------------- C21
\* C21: a track of the batch whose file is in the cache directory is not
\* passed to the downloader and is not downloaded, and it is among the tracks
\* reported as downloaded; when every track of the batch has its file the
\* downloader is not started; so a track is downloaded in a run only if its
\* file was absent when the run started, also in the run that follows a kill.
C21_PresentNotAcquired ==
    InSync =>
        /\ \A sid \in Tracks :
              (CacheFilename(sid) \in start.cacheDir.files) =>
                  /\ sid \notin log.handed
                  /\ log.acquired[sid] = 0
                  /\ (sid \in Range(all_downloads) /\ log.phase1Saved) => sid \in log.downloaded
        /\ (\A sid \in Range(all_downloads) : CacheFilename(sid) \in start.cacheDir.files) =>
              /\ pc # "download"
              /\ workers = <<>>
              /\ log.handed = {}

\* the run after a kill finds the file of one track of its batch, which has
\* no CacheEntry yet, and downloads another
C21_Witness ==
    /\ InSync /\ exit = "killed" /\ log.phase1Saved
    /\ \E sid \in log.downloaded :
          /\ CacheFilename(sid) \in start.cacheDir.files
          /\ sid \notin CacheKeys(start.manifestFile)
          /\ sid \notin log.handed
    /\ \E sid \in log.downloaded : sid \in log.handed /\ log.acquired[sid] = 1

\* ---------------------------------------------------------------- C22
\* C22: as long as run_sync has not finished its download batch and saved
\* the CacheEntries of the batch, the playlist folders hold the files they
\* held when the run started and the manifest file records for every
\* playlist the songs it recorded then; the first change is made in Phase 2,
\* with every downloader joined and, when there was a batch, the entry of
\* every downloaded track in the manifest file.
C22_PhaseOrder ==
    (/\ InSync
     /\ \/ folderFiles # start.folderFiles
        \/ \E playlist_id \in Playlists :
               SongsIn(manifestFile, playlist_id) # SongsIn(start.manifestFile, playlist_id)) =>
        /\ \/ pc \in {"p2_next", "p2_files"}
           \/ pc = "saving" /\ saving.what = "playlist"
        /\ workers = <<>>
        /\ (all_downloads # <<>>) =>
               /\ log.phase1Saved
               /\ log.downloaded \subseteq CacheKeys(manifestFile)
               /\ \A sid \in Range(all_downloads) :
                      (CacheFilename(sid) \in cacheDir.files) => sid \in CacheKeys(manifestFile)

\* Phase 2 copies into a folder after a batch that downloaded a track
C22_Witness ==
    /\ InSync /\ pc = "p2_files"
    /\ \E dir \in DOMAIN folderFiles : folderFiles[dir] # {} /\ dir \notin DOMAIN start.folderFiles
    /\ log.phase1Saved /\ log.handed # {} /\ log.downloaded # {}
    /\ SongsIn(manifestFile, planOrder[phase2.idx]) = SongsIn(start.manifestFile, planOrder[phase2.idx])

\* ---------------------------------------------------------------- C23
\* (what the next property is stated with)
FilesIn(ff, dir) == IF dir \in DOMAIN ff THEN ff[dir] ELSE {}
EntryNames(sids) == {manifest.cache[sid].filename : sid \in sids \cap DOMAIN manifest.cache}
C23_Phase2Step ==
    InSync =>
        /\ cacheDir.files \subseteq cacheDir'.files
        /\ (pc \in {"p2_next", "p2_files"}) => cacheDir' = cacheDir
        /\ \A dir \in DOMAIN folderFiles \cup DOMAIN folderFiles' :
              LET created == FilesIn(folderFiles', dir) \ FilesIn(folderFiles, dir)
                  deleted == FilesIn(folderFiles, dir) \ FilesIn(folderFiles', dir)
              IN  (created \cup deleted # {}) =>
                      /\ pc = "p2_files"
                      /\ dir = actions[planOrder[phase2.idx]].playlist_dir
                      /\ created \subseteq EntryNames(actions[planOrder[phase2.idx]].to_add)
                      /\ deleted \subseteq EntryNames(actions[planOrder[phase2.idx]].to_remove)
        /\ \A c \in log'.copied \ log.copied :
              /\ c[2] \notin FilesIn(folderFiles, c[1])
              /\ c[2] \in FilesIn(folderFiles', c[1])
C24_ReconcileStep ==
    (/\ pc = "idle" /\ reconciles' = reconciles + 1
     /\ \/ ~cacheDir.exists
        \/ cacheDir.files \subseteq {manifestFile.doc.cache[sid].filename :
                                        sid \in CacheKeys(manifestFile)}) =>
        /\ pc' = "idle" /\ exit' = "nothing"
        /\ log' = NoLog
        /\ manifestFile' = manifestFile /\ tmpFile' = tmpFile
        /\ cacheDir' = cacheDir /\ folderFiles' = folderFiles
\* C24: a reconcile called when there is no cache directory, or when every
\* file of the cache directory is the filename of a CacheEntry, returns in
\* that step: no lookup is built from the remote playlists, no save of the
\* manifest is started, and no file is changed.
C24_NothingToReconcile == [][C24_ReconcileStep]_vars

\* reconcile has returned at once on a cache directory whose files all have
\* their CacheEntry
C24_Witness ==
    /\ pc = "idle" /\ exit = "nothing" /\ reconciles = 1
    /\ cacheDir.exists /\ cacheDir.files # {}
    /\ cacheDir.files \subseteq {manifestFile.doc.cache[sid].filename :
                                    sid \in CacheKeys(manifestFile)}

\* ---------------------------------------------------------------- C25
\* (what the next property is stated with)
ConfiguredByUrl ==
    {config.playlists[i].id : i \in {j \in 1..Len(config.playlists) :
                                        config.playlists[j].item_type = "playlist"}}
ConfiguredByName(memo) ==
    LET names == UNION {{IF EndsWith(x, Str_json) THEN SubSeq(x, 1, Len(x) - 5) ELSE x :
                            x \in config.folders[f]} : f \in DOMAIN config.folders}
    IN  {memo[n].id : n \in names \cap DOMAIN memo}
        \cup {UserPlaylists[u] : u \in {v \in DOMAIN UserPlaylists :
                 \E n \in names \ DOMAIN memo :
                     \/ v = n
                     \/ n \notin DOMAIN UserPlaylists /\ Lower(v) = Lower(n)}}
FirstOf(order, filename) ==
    order[CHOOSE i \in 1..Len(order) :
              /\ CacheFilename(order[i]) = filename
              /\ \A j \in 1..(i - 1) : CacheFilename(order[j]) # filename]
\* C25 (as claimed): when no fetch raises, the lookup that build_track_lookup
\* returns has an entry for the derived filename of every track of every
\* playlist the configuration names, by url or by name, the memoised id
\* standing for a memoised name; and the entry of a filename is the first
\* track of that filename that was fetched.
C25_LookupCoversConfigured ==
    (/\ call.fn = "build_track_lookup" /\ call.done
     /\ call.ret.fetched = ConfiguredByName(call.args.manifest.playlist_url_cache)) =>
        /\ \A p \in (ConfiguredByUrl
                     \cup ConfiguredByName(call.args.manifest.playlist_url_cache)) \cap Playlists :
              \A t \in remote[p] : CacheFilename(t) \in DOMAIN call.ret.lookup
        /\ \A f \in DOMAIN call.ret.lookup : call.ret.lookup[f] = FirstOf(call.ret.order, f)

\* ---------------------------------------------------------------- C26
\* (what the next property is stated with)
NoLimitNoFailure(l) ==
    /\ l.args.limit = 0 /\ l.args.limit_playlists = 0
    /\ l.failed = {}
\* C26 (as claimed): when a run_sync with no limit has committed every
\* playlist of its plan, and no download has failed in it or in the run
\* before it, then for every playlist of the plan and every track of its
\* persisted songs the folder of the playlist holds the file named by the
\* CacheEntry of the track.
C26_FolderAgreesWithSongs ==
    (/\ InSync /\ ~args.dry_run /\ AtEnd /\ log.committed = DOMAIN log.plan
     /\ NoLimitNoFailure(log)
     /\ prev.entry = "sync" => NoLimitNoFailure(prev)) =>
        \A playlist_id \in DOMAIN log.plan :
            \A sid \in SongsIn(manifestFile, playlist_id) :
                /\ sid \in CacheKeys(manifestFile)
                /\ manifestFile.doc.cache[sid].filename
                       \in FilesIn(folderFiles, actions[playlist_id].playlist_dir)

\* C27: the file download_to_cache_batch checks after the download is the
\* file the downloader wrote, so a successful download is recorded, also
\* for a name whose file name is longer than 200 bytes
C27_FilenameAgreement ==
    (call.fn = "download_to_cache_batch" /\ call.done) =>
        /\ call.ret.checked = call.ret.written
        /\ call.ret.results = {call.ret.checked}

\* C28 (as claimed): both runs with a limit, the remote unchanged and no
\* download failing: a track the limit cut from the batch of the first
\* run is in needs_download of its playlist in the next run.
C28_DroppedTrackNeededAgain ==
    (/\ pc = "planned" /\ Follows({"complete"})
     /\ args.limit > 0 /\ prev.args.limit > 0 /\ prev.failed = {}) =>
        \A playlist_id \in DOMAIN actions \cap DOMAIN prev.plan :
            \A sid \in prev.dropped \cap prev.plan[playlist_id].to_add :
                sid \in actions[playlist_id].needs_download

\* C29: whenever run_sync or reconcile puts a CacheEntry into the manifest
\* it holds, and whenever a save brings a new CacheEntry into the manifest
\* file, a file with the filename of the entry is in the cache directory.
C29_AddStep ==
    LET before == IF pc # "idle" THEN manifest.cache
                  ELSE IF manifestFile.exists THEN manifestFile.doc.cache ELSE <<>>
    IN  /\ \A sid \in DOMAIN manifest'.cache :
               (sid \notin DOMAIN before \/ before[sid] # manifest'.cache[sid]) =>
                   /\ cacheDir'.exists
                   /\ manifest'.cache[sid].filename \in cacheDir'.files
        /\ \A sid \in CacheKeys(manifestFile') \ CacheKeys(manifestFile) :
               manifestFile'.doc.cache[sid].filename \in cacheDir'.files
C29_EntriesBacked == [][C29_AddStep]_vars
\* a run that records a file it found in the cache directory, with an
\* entry of reconcile already in the manifest
C29_Witness ==
    /\ InSync /\ pc = "saving" /\ saving.what = "phase1"
    /\ \E sid \in DOMAIN manifest.cache :
           /\ manifest.cache[sid].reconciled
           /\ manifest.cache[sid].filename \in cacheDir.files
    /\ \E sid \in log.downloaded :
           /\ ~manifest.cache[sid].reconciled
           /\ manifest.cache[sid].downloaded_at = clock
           /\ manifest.cache[sid].filename \in cacheDir.files

\* (what the next property is stated with)
SameEntry(a, b) ==
    /\ a.name = b.name /\ a.artist = b.artist
    /\ a.filename = b.filename /\ a.downloaded_at = b.downloaded_at
KeepsEntries(before, after) ==
    /\ \A sid \in DOMAIN before.cache :
           sid \in DOMAIN after.cache /\ SameEntry(before.cache[sid], after.cache[sid])
    /\ after.playlists = before.playlists
    /\ after.playlist_url_cache = before.playlist_url_cache

\* C30 (as claimed): from the start of reconcile to its end, every
\* CacheEntry the manifest file held is in the manifest, in memory and in
\* the file, under the same track id with the same name, artist, filename
\* and downloaded_at, and playlists and playlist_url_cache are the same.
C30_ReconcileOnlyAdds ==
    log.entry = "reconcile" =>
        /\ KeepsEntries(start.manifestFile.doc, manifest)
        /\ KeepsEntries(start.manifestFile.doc, manifestFile.doc)

\* C31 (as claimed): reconcile is called again after a reconcile that saved
\* its manifest, no run_sync in between, and builds the same lookup: it
\* matches no file, its untracked files are the files the first call left
\* unmatched, and the CacheEntries of the manifest, in memory and in the
\* file, are those it loaded; when it returns early, the first call had
\* left no file unmatched.
C31_ReconcileIdempotent ==
    /\ (log.entry = "reconcile" /\ prev.rec.done /\ prev.rec.saved
            /\ log.lookup = prev.rec.lookup) =>
           /\ log.matched = 0
           /\ Untracked = prev.rec.unmatched
           /\ manifest.cache = start.manifestFile.doc.cache
           /\ manifestFile.doc.cache = start.manifestFile.doc.cache
    /\ (pc = "idle" /\ exit = "nothing" /\ prev.rec.done /\ prev.rec.saved) =>
           prev.rec.unmatched = {}

====
